---- MODULE Spec2Model ----
(***************************************************************************)
(* Verification model of the meal-prep planner's core:                     *)
(*   - store_router.py      (StoreRouter, apply_smart_routing)             *)
(*   - src/shopping_list.py (ShoppingListGenerator._aggregate_ingredients) *)
(*   - price_api_service.py (PriceAPIService.get_price and its cache)      *)
(*                                                                         *)
(* Python floats are modelled exactly: a number is a dyadic rational       *)
(* [m, e] (m a bit string, most significant bit first, value m * 2^e) and  *)
(* every float operation rounds the exact result to 53 significant bits,   *)
(* ties to even, as IEEE-754 binary64 does in the range the program uses.  *)
(* Text is modelled as strings with Python's lower/strip/replace/split.    *)
(***************************************************************************)
EXTENDS Integers, Sequences, FiniteSets, TLC

(***************************************************************************)
(* Small helpers.                                                          *)
(***************************************************************************)
Min2(a, b) == IF a <= b THEN a ELSE b

Max2(a, b) == IF a >= b THEN a ELSE b

Zeros(n) == [i \in 1..n |-> 0]

Range(s) == {s[i] : i \in 1..Len(s)}

(***************************************************************************)
(* Python float arithmetic (binary64, round to nearest, ties to even).     *)
(***************************************************************************)
\* Significant bits of a Python float.
MantissaBits == 53

\* The bit string without its leading zeros.
StripLead(b) ==
    LET ones == {i \in 1..Len(b) : b[i] = 1}
    IN IF ones = {} THEN <<>>
       ELSE SubSeq(b, CHOOSE i \in ones : \A j \in ones : i <= j, Len(b))

\* The number of trailing zeros of a bit string that holds a one.
TrailZeros(b) ==
    LET ones == {i \in 1..Len(b) : b[i] = 1}
    IN Len(b) - (CHOOSE i \in ones : \A j \in ones : j <= i)

\* The canonical form of the number b * 2^e: an odd mantissa, or zero.
Canon(b, e) ==
    LET s == StripLead(b)
    IN IF Len(s) = 0 THEN [m |-> <<>>, e |-> 0]
       ELSE LET z == TrailZeros(s)
            IN [m |-> SubSeq(s, 1, Len(s) - z), e |-> e + z]

\* a + b for bit strings of the same length n, as n + 1 bits: position i
\* receives a carry when a lower position generates one (both bits set) and
\* every position in between propagates it (exactly one bit set).
AddAligned(a, b) ==
    LET n == Len(a)
        carry(i) == \E j \in (i + 1)..n :
                        /\ a[j] = 1 /\ b[j] = 1
                        /\ \A k \in (i + 1)..(j - 1) : a[k] + b[k] = 1
        bit(i) == ((IF i = 0 THEN 0 ELSE a[i] + b[i])
                   + (IF carry(i) THEN 1 ELSE 0)) % 2
    IN SubSeq([i \in 1..(n + 1) |-> bit(i - 1)], 1, n + 1)

\* a + b for bit strings read as naturals.
AddBits(a, b) ==
    LET n == Max2(Len(a), Len(b))
    IN AddAligned(Zeros(n - Len(a)) \o a, Zeros(n - Len(b)) \o b)

\* a < b for bit strings read as naturals.
BitsLess(a, b) ==
    LET sa == StripLead(a)
        sb == StripLead(b)
    IN IF Len(sa) # Len(sb) THEN Len(sa) < Len(sb)
       ELSE LET diff == {i \in 1..Len(sa) : sa[i] # sb[i]}
            IN diff # {} /\ sa[CHOOSE i \in diff : \A j \in diff : i <= j] = 0

\* The number of bits of the natural n.
BitLength(n) == IF n = 0 THEN 0 ELSE CHOOSE L \in 1..30 : 2^(L-1) <= n /\ n \div 2^(L-1) < 2

\* The natural n as a bit string.
NatBits(n) == LET L == BitLength(n) IN [i \in 1..L |-> (n \div 2^(L - i)) % 2]

\* An int as a number.
FromNat(n) == Canon(NatBits(n), 0)

FZero == [m |-> <<>>, e |-> 0]

IsZero(x) == Len(x.m) = 0

\* The exact sum of two numbers.
ExactAdd(x, y) ==
    LET e == Min2(x.e, y.e)
    IN IF IsZero(x) THEN y ELSE IF IsZero(y) THEN x
       ELSE Canon(AddBits(x.m \o Zeros(x.e - e), y.m \o Zeros(y.e - e)), e)

\* x < y.
FLess(x, y) ==
    IF IsZero(y) THEN FALSE
    ELSE IF IsZero(x) THEN TRUE
    ELSE IF x.e + Len(x.m) # y.e + Len(y.m) THEN x.e + Len(x.m) < y.e + Len(y.m)
    ELSE LET e == Min2(x.e, y.e)
         IN BitsLess(x.m \o Zeros(x.e - e), y.m \o Zeros(y.e - e))

\* Round an exact number to a float: keep 53 bits, ties to even.
RoundFloat(d) ==
    LET n == Len(d.m)
    IN IF n <= MantissaBits THEN d
       ELSE LET keep == SubSeq(d.m, 1, MantissaBits)
                guard == d.m[MantissaBits + 1]
                sticky == \E i \in (MantissaBits + 2)..n : d.m[i] = 1
                up == guard = 1 /\ (sticky \/ keep[MantissaBits] = 1)
            IN Canon(IF up THEN AddBits(keep, <<1>>) ELSE keep,
                     d.e + (n - MantissaBits))

\* Python's x + y on numbers.
FAdd(x, y) == RoundFloat(ExactAdd(x, y))

\* The exact product of x and bits lo..hi of y, by halves.
RECURSIVE MulRange(_, _, _, _)
MulRange(x, y, lo, hi) ==
    IF lo = hi
    THEN IF y.m[lo] = 1
         THEN [m |-> x.m, e |-> x.e + y.e + (Len(y.m) - lo)]
         ELSE FZero
    ELSE LET mid == (lo + hi) \div 2
         IN ExactAdd(MulRange(x, y, lo, mid), MulRange(x, y, mid + 1, hi))

\* The exact product of two numbers.
ExactMul(x, y) ==
    IF IsZero(x) \/ IsZero(y) THEN FZero
    ELSE IF Len(x.m) < Len(y.m) THEN MulRange(y, x, 1, Len(x.m))
    ELSE MulRange(x, y, 1, Len(y.m))

\* Python's x * y on numbers.
FMul(x, y) == RoundFloat(ExactMul(x, y))

\* 2^i mod b, by repeated squaring (b below 2^15).
RECURSIVE Pow2Mod(_, _)
Pow2Mod(i, b) ==
    IF i = 0 THEN 1 % b
    ELSE IF i % 2 = 1 THEN (2 * Pow2Mod(i - 1, b)) % b
    ELSE LET h == Pow2Mod(i \div 2, b) IN (h * h) % b

\* Fraction bits developed by a division: enough for 53 significant bits, a
\* guard bit and the leading zeros of a quotient of two naturals below 2^15.
QuotientBits == 72

\* The float nearest to a / b for naturals a, b (b > 0) below 2^15: the
\* correctly rounded quotient, which is Python's float(a) / float(b) and also
\* float() of the decimal text a / 10^k.  Fraction bit i of a / b is
\* floor(2 * (a * 2^(i-1) mod b) / b); a sticky bit records a remainder.
RatioFloat(a, b) ==
    LET r == a % b
        frac == [i \in 1..QuotientBits |-> (2 * ((r * Pow2Mod(i - 1, b)) % b)) \div b]
        sticky == IF (r * Pow2Mod(QuotientBits, b)) % b # 0 THEN 1 ELSE 0
    IN RoundFloat(Canon(NatBits(a \div b) \o frac \o <<sticky>>,
                        0 - (QuotientBits + 1)))

\* The natural a bit string of at most 15 bits stands for.
RECURSIVE BitsNat(_)
BitsNat(b) ==
    IF Len(b) = 0 THEN 0 ELSE 2 * BitsNat(SubSeq(b, 1, Len(b) - 1)) + b[Len(b)]

\* Python's x / y on floats whose mantissas are below 2^15 (y nonzero).
FDiv(x, y) ==
    LET q == RatioFloat(BitsNat(x.m), BitsNat(y.m))
    IN IF IsZero(q) THEN q ELSE [m |-> q.m, e |-> q.e + x.e - y.e]

(***************************************************************************)
(* Python text operations.                                                 *)
(***************************************************************************)
\* The characters the model's texts use, in code-point order.
Alphabet == " '-./0123456789ABCDEFGHIJKLMNOPQRSTUVWXYZ_abcdefghijklmnopqrstuvwxyz"

UpperChars == "ABCDEFGHIJKLMNOPQRSTUVWXYZ"

LowerChars == "abcdefghijklmnopqrstuvwxyz"

Digits == "0123456789"

Char(s, i) == SubSeq(s, i, i)

\* The place of character c in text t, 0 when it does not occur.
IndexIn(c, t) ==
    LET at == {i \in 1..Len(t) : Char(t, i) = c}
    IN IF at = {} THEN 0 ELSE CHOOSE i \in at : \A j \in at : i <= j

\* The text f(lo) f(lo+1) ... f(hi), by halves.
RECURSIVE JoinText(_, _, _)
JoinText(f(_), lo, hi) ==
    IF lo > hi THEN ""
    ELSE IF lo = hi THEN f(lo)
    ELSE LET mid == (lo + hi) \div 2
         IN JoinText(f, lo, mid) \o JoinText(f, mid + 1, hi)

LowerChar(c) ==
    LET i == IndexIn(c, UpperChars) IN IF i = 0 THEN c ELSE Char(LowerChars, i)

UpperChar(c) ==
    LET i == IndexIn(c, LowerChars) IN IF i = 0 THEN c ELSE Char(UpperChars, i)

IsLetter(c) == IndexIn(c, UpperChars) > 0 \/ IndexIn(c, LowerChars) > 0

\* str.lower()
Lower(s) ==
    LET f(i) == LowerChar(Char(s, i)) IN JoinText(f, 1, Len(s))

\* str.replace(old, new) for a one-character old.
Replace(s, old, new) ==
    LET f(i) == IF Char(s, i) = old THEN new ELSE Char(s, i)
    IN JoinText(f, 1, Len(s))

\* str.title(): a letter after a non-letter is upper-cased, any other letter
\* lower-cased.
Title(s) ==
    LET f(i) == IF i > 1 /\ IsLetter(Char(s, i - 1))
                THEN LowerChar(Char(s, i)) ELSE UpperChar(Char(s, i))
    IN JoinText(f, 1, Len(s))

\* str.strip(): without the leading and trailing blanks.
Strip(s) ==
    LET solid == {i \in 1..Len(s) : Char(s, i) # " "}
    IN IF solid = {} THEN ""
       ELSE SubSeq(s, CHOOSE i \in solid : \A j \in solid : i <= j,
                      CHOOSE i \in solid : \A j \in solid : j <= i)

\* sub in s
Contains(sub, s) ==
    \E i \in 1..(Len(s) - Len(sub) + 1) : SubSeq(s, i, i + Len(sub) - 1) = sub

\* a < b for texts, as Python compares them: by code point at the first
\* difference, a proper prefix first.
TextLess(a, b) ==
    LET n == Min2(Len(a), Len(b))
        diff == {i \in 1..n : Char(a, i) # Char(b, i)}
    IN IF diff = {} THEN Len(a) < Len(b)
       ELSE LET i == CHOOSE d \in diff : \A j \in diff : d <= j
            IN IndexIn(Char(a, i), Alphabet) < IndexIn(Char(b, i), Alphabet)

IsDigits(s) == Len(s) > 0 /\ \A i \in 1..Len(s) : IndexIn(Char(s, i), Digits) > 0

\* The natural a text of digits denotes.
RECURSIVE DigitsNat(_)
DigitsNat(s) ==
    IF Len(s) = 0 THEN 0
    ELSE 10 * DigitsNat(SubSeq(s, 1, Len(s) - 1)) + (IndexIn(Char(s, Len(s)), Digits) - 1)

\* float(text): the blanks around it are dropped; digits with at most one
\* decimal point are a number, any other text raises ValueError ("bad").
\* (Signs, exponents, "inf" and "nan" are outside the model's texts.)
ParseFloat(s) ==
    LET t == Strip(s)
        dot == IndexIn(".", t)
        whole == IF dot = 0 THEN t ELSE SubSeq(t, 1, dot - 1)
        frac == IF dot = 0 THEN "" ELSE SubSeq(t, dot + 1, Len(t))
        ok == /\ Len(whole) + Len(frac) > 0
              /\ Len(whole) = 0 \/ IsDigits(whole)
              /\ Len(frac) = 0 \/ IsDigits(frac)
    IN IF ok
       THEN [ok |-> TRUE, v |-> RatioFloat(DigitsNat(whole \o frac), 10^Len(frac))]
       ELSE [ok |-> FALSE, v |-> FZero]

(***************************************************************************)
(* Python values of varying type: an int, a float written as the decimal   *)
(* n / d, a text, or None.                                                 *)
(***************************************************************************)
IntV(n) == [t |-> "int", n |-> n, d |-> 1, s |-> ""]

FloatV(n, d) == [t |-> "float", n |-> n, d |-> d, s |-> ""]

StrV(s) == [t |-> "str", n |-> 0, d |-> 1, s |-> s]

NoneV == [t |-> "none", n |-> 0, d |-> 1, s |-> ""]

\* The number an int or float value is.
NumberOf(v) == IF v.t = "int" THEN FromNat(v.n) ELSE RatioFloat(v.n, v.d)

(***************************************************************************)
(* store_router.py: StoreRouter                                            *)
(***************************************************************************)
\* self.store_profiles, in insertion order; min_quantity is a whole number
\* of cups; a profile without an 'avoid' key has avoid {} (profile.get).
store_profiles == <<
    [id |-> "costco", name |-> "Costco", type |-> "bulk", min_quantity |-> 3,
     good_for |-> {"pantry_staples", "bulk_proteins", "frozen", "large_quantities"},
     avoid |-> {"fresh_herbs", "small_produce", "specialty_items", "spices_and_seasonings"}],
    [id |-> "whole_foods", name |-> "Whole Foods", type |-> "specialty", min_quantity |-> 0,
     good_for |-> {"fresh_produce", "specialty_items", "small_quantities", "organic",
                   "fresh_herbs", "spices_and_seasonings", "oils_and_liquids"},
     avoid |-> {}],
    [id |-> "petes_fresh_market", name |-> "Pete's Fresh Market", type |-> "specialty",
     min_quantity |-> 0,
     good_for |-> {"fresh_produce", "ethnic_ingredients", "small_quantities",
                   "fresh_herbs", "spices_and_seasonings"},
     avoid |-> {}],
    [id |-> "aldi", name |-> "Aldi", type |-> "budget", min_quantity |-> 0,
     good_for |-> {"budget_staples", "medium_quantities", "frozen", "pantry_staples",
                   "dairy_and_eggs"},
     avoid |-> {}],
    [id |-> "jewel", name |-> "Jewel-Osco", type |-> "convenience", min_quantity |-> 0,
     good_for |-> {"convenience", "any_quantity", "last_minute", "dairy_and_eggs"},
     avoid |-> {}] >>

\* self.ingredient_categories, in insertion order.
ingredient_categories == <<
    [category |-> "pantry_staples", ingredients |-> <<
        "rice", "pasta", "flour", "sugar", "salt", "soy sauce", "vinegar", "honey",
        "beans", "lentils", "quinoa", "oats", "cornmeal">>],
    [category |-> "oils_and_liquids", ingredients |-> <<
        "oil", "olive oil", "vegetable oil", "canola oil", "sesame oil",
        "coconut oil", "vinegar", "stock", "broth", "wine">>],
    [category |-> "spices_and_seasonings", ingredients |-> <<
        "paprika", "cumin", "coriander", "turmeric", "cinnamon", "pepper",
        "chili powder", "cayenne", "nutmeg", "cardamom", "cloves",
        "ginger", "garlic powder", "onion powder", "oregano", "thyme",
        "bay leaf", "sage", "rosemary", "mustard", "curry">>],
    [category |-> "fresh_produce", ingredients |-> <<
        "lettuce", "spinach", "tomato", "onion", "garlic", "carrot",
        "celery", "bell pepper", "cucumber", "potato", "broccoli",
        "cabbage", "kale", "zucchini", "squash", "eggplant", "mushroom",
        "corn", "peas", "green beans", "asparagus", "cauliflower">>],
    [category |-> "fresh_herbs", ingredients |-> <<
        "cilantro", "parsley", "basil", "mint", "rosemary", "thyme",
        "oregano", "dill", "chives", "tarragon", "sage">>],
    [category |-> "bulk_proteins", ingredients |-> <<
        "chicken breast", "chicken thigh", "ground beef", "ground turkey",
        "pork chops", "salmon", "tilapia", "shrimp", "beef", "pork",
        "turkey", "lamb", "fish", "chicken">>],
    [category |-> "dairy_and_eggs", ingredients |-> <<
        "milk", "cheese", "yogurt", "butter", "cream", "sour cream",
        "eggs", "half and half", "cottage cheese", "cream cheese">>],
    [category |-> "specialty_items", ingredients |-> <<
        "tahini", "miso paste", "fish sauce", "gochujang", "harissa",
        "coconut milk", "curry paste", "anchovy", "capers", "olives",
        "sun-dried tomato", "artichoke", "pesto">>],
    [category |-> "ethnic_ingredients", ingredients |-> <<
        "kimchi", "gochujang", "miso", "fish sauce", "tamarind",
        "turmeric", "cumin", "coriander", "curry", "garam masala",
        "soy sauce", "rice wine", "sake", "mirin">>] >>

\* The first index of a sequence that satisfies P, 0 when none does.
FirstIndex(seq, P(_)) ==
    LET hits == {i \in 1..Len(seq) : P(seq[i])}
    IN IF hits = {} THEN 0 ELSE CHOOSE i \in hits : \A j \in hits : i <= j

\* A categorization by the last category, in table order, one of whose
\* keywords occurs in the lower-cased name.
CategorizeByLastMatch(ingredient_name) ==
    LET ingredient_lower == Lower(ingredient_name)
        hits == {i \in 1..Len(ingredient_categories) :
                    \E k \in 1..Len(ingredient_categories[i].ingredients) :
                        Contains(ingredient_categories[i].ingredients[k], ingredient_lower)}
    IN IF hits = {} THEN "general"
       ELSE ingredient_categories[CHOOSE i \in hits : \A j \in hits : j <= i].category

\* StoreRouter.categorize_ingredient: the first category, in table order,
\* one of whose keywords occurs in the lower-cased name.
categorize_ingredient(ingredient_name) ==
    LET ingredient_lower == Lower(ingredient_name)
        matches(c) == \E k \in 1..Len(c.ingredients) :
                          Contains(c.ingredients[k], ingredient_lower)
        i == FirstIndex(ingredient_categories, matches)
    IN IF i = 0 THEN "general" ELSE ingredient_categories[i].category

\* The conversions table of convert_to_standard_unit: unit, multiplier n / d.
conversions == <<
    <<"cup", 1, 1>>, <<"cups", 1, 1>>,
    <<"tablespoon", 625, 10000>>, <<"tablespoons", 625, 10000>>, <<"tbsp", 625, 10000>>,
    <<"teaspoon", 208, 10000>>, <<"teaspoons", 208, 10000>>, <<"tsp", 208, 10000>>,
    <<"pound", 2, 1>>, <<"pounds", 2, 1>>, <<"lb", 2, 1>>, <<"lbs", 2, 1>>,
    <<"ounce", 125, 1000>>, <<"ounces", 125, 1000>>, <<"oz", 125, 1000>>,
    <<"gram", 4, 1000>>, <<"grams", 4, 1000>>, <<"g", 4, 1000>>,
    <<"liter", 4227, 1000>>, <<"liters", 4227, 1000>>, <<"l", 4227, 1000>>,
    <<"milliliter", 4, 1000>>, <<"milliliters", 4, 1000>>, <<"ml", 4, 1000>>,
    <<"pinch", 1, 100>>, <<"dash", 1, 100>>, <<"to taste", 1, 100>> >>

\* float(amount) with the fallback of convert_to_standard_unit: a text that
\* is no number, or None, becomes 1.0.
AmountAsFloat(amount) ==
    IF amount.t \in {"int", "float"} THEN NumberOf(amount)
    ELSE IF amount.t = "str"
    THEN LET p == ParseFloat(amount.s) IN IF p.ok THEN p.v ELSE FromNat(1)
    ELSE FromNat(1)

\* StoreRouter.convert_to_standard_unit: the amount in standard cups.
convert_to_standard_unit(amount, unit) ==
    LET unit_lower == IF unit # "" THEN Strip(Lower(unit)) ELSE "cup"
        isUnit(c) == c[1] = unit_lower
        i == FirstIndex(conversions, isUnit)
        multiplier == IF i = 0 THEN FromNat(1)
                      ELSE RatioFloat(conversions[i][2], conversions[i][3])
    IN FMul(AmountAsFloat(amount), multiplier)

\* A default profile of a wholesale club.
DefaultProfileBulk(store_id) ==
    [id |-> store_id, name |-> store_id, type |-> "bulk", min_quantity |-> 3,
     good_for |-> {"large_quantities"}, avoid |-> {}]

\* The profile get_store_profile returns when no table entry matches.
DefaultProfile(store_id) ==
    [id |-> store_id, name |-> Title(Replace(store_id, "_", " ")),
     type |-> "convenience", min_quantity |-> 0,
     good_for |-> {"convenience", "any_quantity"}, avoid |-> {}]

\* StoreRouter.get_store_profile: the exact id, else the id that is equal
\* once lower-cased and stripped of underscores and blanks, else the default.
get_store_profile(store_id) ==
    LET exact(p) == p.id = store_id
        normalized == Replace(Replace(Lower(store_id), "_", ""), " ", "")
        loose(p) == Replace(Replace(Lower(p.id), "_", ""), " ", "") = normalized
        i == FirstIndex(store_profiles, exact)
        j == FirstIndex(store_profiles, loose)
    IN IF i # 0 THEN store_profiles[i]
       ELSE IF j # 0 THEN store_profiles[j]
       ELSE DefaultProfile(store_id)

\* A score that tells no store from another.
RawScoreFlat(store_id, ingredient_name, category, profile, q) == 50

\* A score that falls at a bulk store once the quantity reaches 5 cups.
RawScoreLargePenalized(store_id, ingredient_name, category, profile, q) ==
    50 + (IF profile.type = "bulk" /\ ~FLess(q, FromNat(5)) THEN 0 - 30 ELSE 0)

\* The score before clamping, adjustment by adjustment.
RawScore(store_id, ingredient_name, category, profile, q) ==
    50
    + (IF store_id = "costco"
       THEN (IF FLess(q, RatioFloat(1, 2)) THEN 0 - 60
             ELSE IF FLess(q, FromNat(1)) THEN 0 - 40
             ELSE IF FLess(q, FromNat(2)) THEN 0 - 25
             ELSE IF FLess(q, FromNat(3)) THEN 0 - 15
             ELSE 0)
       ELSE 0)
    + (IF FLess(q, FromNat(profile.min_quantity)) THEN 0 - 30 ELSE 0)
    + (IF category \in profile.good_for THEN 30 ELSE 0)
    + (IF category \in profile.avoid THEN 0 - 40 ELSE 0)
    + (IF profile.type = "bulk" /\ ~FLess(q, FromNat(5)) THEN 30 ELSE 0)
    + (IF profile.type = "specialty" /\ FLess(q, FromNat(2)) THEN 25 ELSE 0)
    + (IF profile.type = "specialty" /\ FLess(q, RatioFloat(1, 2)) THEN 20 ELSE 0)
    + (IF category = "fresh_herbs"
       THEN (IF profile.type = "specialty" THEN 40
             ELSE IF profile.type = "bulk" THEN 0 - 60 ELSE 0)
       ELSE 0)
    + (IF Contains("powder", ingredient_name) \/ Contains("paprika", ingredient_name)
          \/ Contains("cumin", ingredient_name)
       THEN (IF profile.type = "specialty" /\ FLess(q, FromNat(1)) THEN 30
             ELSE IF profile.type = "bulk" /\ FLess(q, FromNat(1)) THEN 0 - 40 ELSE 0)
       ELSE 0)

\* StoreRouter.score_store_for_ingredient: the score clamped to 0..100.
score_store_for_ingredient(store_id, ingredient, quantity_in_cups) ==
    LET profile == get_store_profile(store_id)
        ingredient_name == Lower(ingredient.item)
        category == categorize_ingredient(ingredient_name)
    IN Max2(0, Min2(100, RawScore(store_id, ingredient_name, category, profile,
                                  quantity_in_cups)))

\* dict.get(key, default) on a record.
Get(d, k, default) == IF k \in DOMAIN d THEN d[k] ELSE default

\* The concatenation f(lo) \o ... \o f(hi) of sequences.
RECURSIVE Concat(_, _, _)
Concat(f(_), lo, hi) ==
    IF lo > hi THEN <<>>
    ELSE IF lo = hi THEN f(lo)
    ELSE LET mid == (lo + hi) \div 2
         IN Concat(f, lo, mid) \o Concat(f, mid + 1, hi)

\* The elements of s at the positions that satisfy P, in order.
Keep(s, P(_)) ==
    LET one(i) == IF P(i) THEN <<s[i]>> ELSE <<>>
    IN Concat(one, 1, Len(s))

\* sorted(items, key=lambda x: x['item']): stable, by code point.
SortedByItem(items) ==
    LET n == Len(items)
        before(j, i) == \/ TextLess(items[j].item, items[i].item)
                        \/ items[j].item = items[i].item /\ j < i
        rank(i) == 1 + Cardinality({j \in 1..n : before(j, i)})
    IN SubSeq([p \in 1..n |-> items[CHOOSE i \in 1..n : rank(i) = p]], 1, n)

\* The key under which route_ingredients collects an entry.
item_key(item) == Strip(Lower(item.item))

\* The entries of every bucket of the list, bucket by bucket.
ListedItems(shopping_list) ==
    LET stores == Get(shopping_list, "stores", <<>>)
        bucket(b) == Get(stores[b].data, "items", <<>>)
    IN Concat(bucket, 1, Len(stores))

\* all_ingredients with every entry kept, whatever its key.
EveryListedEntry(shopping_list) == ListedItems(shopping_list)

\* all_ingredients of route_ingredients: the first entry of every key, in
\* the order the keys are first met.
all_ingredients(shopping_list) ==
    LET flat == ListedItems(shopping_list)
        first(i) == \A j \in 1..(i - 1) : item_key(flat[j]) # item_key(flat[i])
    IN Keep(flat, first)

\* The keys of a dict filled in the order of s: each value once, at the
\* place of its first occurrence.
DictKeys(s) ==
    LET first(i) == \A j \in 1..(i - 1) : s[j] # s[i]
    IN Keep(s, first)

\* An entry of a shopping list bucket.
Entry(item, amount, unit) == [item |-> item, amount |-> amount, unit |-> unit]

\* The entries the shopping lists of the model are made of.
EntryPool == {
    Entry("fresh basil", StrV("0.20"), "cup"),
    Entry("Rice", StrV("10.0"), "cups"),
    Entry("rice", StrV("0.25"), "cup"),
    Entry("eggs", IntV(12), ""),
    Entry("cumin powder", StrV("2.0"), "tsp"),
    Entry("saffron", StrV("a few"), "pinch") }

\* The store selections a caller passes, as typed.
Selections == {
    <<>>,
    <<"whole_foods">>,
    <<"costco", "whole_foods">>,
    <<"Whole Foods", "petes_fresh_market">>,
    <<"petes_fresh_market", "whole_foods">>,
    <<"Trader Joe's", "costco", "aldi">>,
    <<"jewel", "aldi", "jewel">> }

\* The normalized store ids of apply_smart_routing.
normalized_stores(selected_stores) ==
    [i \in 1..Len(selected_stores) |->
        Replace(Replace(Lower(selected_stores[i]), " ", "_"), "'", "")]

\* score_store_for_ingredient on the quantity route_ingredients converts
\* the ingredient's amount to.
ScoreOf(store_id, ingredient) ==
    score_store_for_ingredient(store_id, ingredient,
        convert_to_standard_unit(Get(ingredient, "amount", IntV(0)),
                                 Get(ingredient, "unit", "cup")))

\* The store ids the selections normalize to.
SelectableStores ==
    {"costco", "whole_foods", "petes_fresh_market", "aldi", "jewel", "trader_joes"}

\* known_scores holds ScoreOf for the stores and entries of the model,
\* computed once.
VARIABLE known_scores

\* ScoreOf for the stores and entries of the model.
ScoreTable == [p \in SelectableStores \X EntryPool |-> ScoreOf(p[1], p[2])]

\* The score route_ingredients gives a store for an ingredient.
StoreScore(store_id, ingredient) == known_scores[<<store_id, ingredient>>]

\* max(store_scores.items(), key=lambda x: x[1])[0] with the last of the
\* maximal entries kept.
BestStoreLast(store_scores) ==
    LET n == Len(store_scores)
        i == CHOOSE i \in 1..n :
                 /\ \A j \in 1..n : store_scores[j][2] <= store_scores[i][2]
                 /\ \A j \in (i + 1)..n : store_scores[j][2] < store_scores[i][2]
    IN store_scores[i][1]

\* max(store_scores.items(), key=lambda x: x[1])[0]: max keeps the first
\* of the maximal entries, in the insertion order of store_scores.
BestStore(store_scores) ==
    LET n == Len(store_scores)
        i == CHOOSE i \in 1..n :
                 /\ \A j \in 1..n : store_scores[j][2] <= store_scores[i][2]
                 /\ \A j \in 1..(i - 1) : store_scores[j][2] < store_scores[i][2]
    IN store_scores[i][1]

\* The store_info of a bucket of the optimized list.
store_info(store_id) ==
    LET exact(p) == p.id = store_id
        i == FirstIndex(store_profiles, exact)
    IN [name |-> IF i # 0 THEN store_profiles[i].name
                 ELSE Title(Replace(store_id, "_", " ")),
        type |-> IF i # 0 THEN store_profiles[i].type ELSE "grocery"]

\* StoreRouter.route_ingredients.
route_ingredients(shopping_list, selected_stores) ==
    LET keys == DictKeys(selected_stores)
        all == all_ingredients(shopping_list)
        store_scores(i) == SubSeq([j \in 1..Len(keys) |->
                                      <<keys[j], StoreScore(keys[j], all[i])>>],
                                  1, Len(keys))
        best(i) == BestStore(store_scores(i))
        best_store == SubSeq([i \in 1..Len(all) |->
                                 IF Len(keys) = 0 THEN "" ELSE best(i)], 1, Len(all))
        new_routing == [k \in 1..Len(keys) |->
                           LET here(i) == best_store[i] = keys[k]
                           IN Keep(all, here)]
        bucket(k) ==
            LET items == new_routing[k]
            IN IF Len(items) = 0 THEN <<>>
               ELSE << [id |-> keys[k],
                        data |-> [items |-> SortedByItem(items),
                                  count |-> Len(items),
                                  store_info |-> store_info(keys[k])]] >>
    IN [stores |-> Concat(bucket, 1, Len(keys)),
        total_items |-> Len(all),
        start_date |-> Get(shopping_list, "start_date", ""),
        end_date |-> Get(shopping_list, "end_date", "")]

\* apply_smart_routing.
apply_smart_routing(shopping_list, selected_stores) ==
    IF Len(selected_stores) <= 1 THEN shopping_list
    ELSE route_ingredients(shopping_list, normalized_stores(selected_stores))

(***************************************************************************)
(* ShoppingListGenerator._aggregate_ingredients.                           *)
(***************************************************************************)
\* A number at run time: an int n, or a float f; f is the float of an int.
IntN(k) == [isint |-> TRUE, n |-> k, f |-> FromNat(k)]

FloatN(x) == [isint |-> FALSE, n |-> 0, f |-> x]

\* x + y: int when both are int, else the float sum.
NumAdd(x, y) ==
    IF x.isint /\ y.isint THEN IntN(x.n + y.n) ELSE FloatN(FAdd(x.f, y.f))

\* amount * servings_int.
NumTimes(x, k) ==
    IF x.isint THEN IntN(x.n * k) ELSE FloatN(FMul(x.f, FromNat(k)))

\* The amounts that are skipped as text.
skip_values == {"varies", "optional", "", "to taste", "as needed",
                "pinch", "dash", "handful", "sprinkle", "as desired"}

\* How often the character c occurs in s.
CountChar(c, s) == Cardinality({i \in 1..Len(s) : Char(s, i) = c})

\* num, denom = text.split('/'); float(num) / float(denom): bad unless there
\* is one '/', both parts are numbers and denom is not zero.
ParseQuotient(text) ==
    LET slash == IndexIn("/", text)
        num == ParseFloat(SubSeq(text, 1, slash - 1))
        denom == ParseFloat(SubSeq(text, slash + 1, Len(text)))
    IN IF CountChar("/", text) = 1 /\ num.ok /\ denom.ok /\ ~IsZero(denom.v)
       THEN [ok |-> TRUE, v |-> FDiv(num.v, denom.v)]
       ELSE [ok |-> FALSE, v |-> FZero]

\* A variant of the fraction branch that drops the whole part.
FractionWithoutWhole(amount) ==
    ParseQuotient(SubSeq(amount, IndexIn(" ", amount) + 1, Len(amount)))

\* The fraction branch: "1 1/2" is float(whole) + num / denom, split at the
\* first blank; "1/2" is num / denom.
ParseFraction(amount) ==
    LET blank == IndexIn(" ", amount)
        whole == ParseFloat(SubSeq(amount, 1, blank - 1))
        frac == ParseQuotient(SubSeq(amount, blank + 1, Len(amount)))
    IN IF blank = 0 THEN ParseQuotient(amount)
       ELSE IF frac.ok /\ whole.ok
       THEN [ok |-> TRUE, v |-> FAdd(whole.v, frac.v)]
       ELSE [ok |-> FALSE, v |-> FZero]

\* What the parsing of a line's amount leaves: skip the line, or go on with
\* a number, or go on with a value that is no number (None).
ParsedAmount(amount) ==
    IF amount.t = "str"
    THEN IF Lower(amount.s) \in skip_values THEN [skip |-> TRUE, isnum |-> FALSE, v |-> IntN(0)]
         ELSE LET p == IF Contains("/", amount.s) THEN ParseFraction(amount.s)
                       ELSE ParseFloat(amount.s)
              IN IF p.ok THEN [skip |-> FALSE, isnum |-> TRUE, v |-> FloatN(p.v)]
                 ELSE [skip |-> TRUE, isnum |-> FALSE, v |-> IntN(0)]
    ELSE IF amount.t = "int" THEN [skip |-> FALSE, isnum |-> TRUE, v |-> IntN(amount.n)]
    ELSE IF amount.t = "float"
    THEN [skip |-> FALSE, isnum |-> TRUE, v |-> FloatN(RatioFloat(amount.n, amount.d))]
    ELSE [skip |-> FALSE, isnum |-> FALSE, v |-> IntN(0)]

\* A variant of the threshold that lets every amount through.
NeverNegligible(v) == FALSE

\* amount < 0.1 for an int or a float.
Negligible(v) == FLess(v.f, RatioFloat(1, 10))

\* A variant of servings_int that never scales.
ServingsNeverScaled(servings_needed) == 1

\* servings_int: int(servings_needed), 1 for 'as desired' and for a value
\* int() raises ValueError or TypeError on.
servings_int(servings_needed) ==
    IF servings_needed = StrV("as desired") THEN 1
    ELSE IF servings_needed.t = "int" THEN servings_needed.n
    ELSE IF servings_needed.t = "float" THEN servings_needed.n \div servings_needed.d
    ELSE IF servings_needed.t = "str" /\ IsDigits(Strip(servings_needed.s))
    THEN DigitsNat(Strip(servings_needed.s))
    ELSE 1

\* A line of a recipe's ingredients that is a dict, and one that is text.
Ingredient(item, amount, unit) == [item |-> item, amount |-> amount, unit |-> unit]

TextLine(text) == [text |-> text]

\* A section of a recipe whose ingredients are a dict of sections: a list of
\* lines, or a value that is no list.
Section(key, ing_list) == [key |-> key, islist |-> TRUE, list |-> ing_list]

NoListSection(key) == [key |-> key, islist |-> FALSE, list |-> <<>>]

\* self.recipes of the model: 'ingredients' is a list of lines, or (nested)
\* a dict of sections.
recipes == <<
    [name |-> "rice_bowl", nested |-> FALSE,
     ingredients |-> << Ingredient("Rice", IntV(2), "cup"),
                        Ingredient("salt", StrV("to taste"), ""),
                        Ingredient("sesame oil", StrV("1 1/2"), "tbsp"),
                        TextLine("serve warm") >>],
    [name |-> "vinaigrette", nested |-> FALSE,
     ingredients |-> << Ingredient("olive oil", FloatV(1, 10), "cup"),
                        Ingredient("garlic", NoneV, "clove"),
                        Ingredient("pepper", FloatV(5, 100), "tsp") >>],
    [name |-> "lentils", nested |-> TRUE,
     ingredients |-> << Section("base", << Ingredient("olive oil", FloatV(1, 10), "cup"),
                                          Ingredient("lentils", StrV("2"), "cups") >>),
                        NoListSection("notes"),
                        Section("topping", << Ingredient("olive oil", FloatV(1, 4), "cup"),
                                             Ingredient("rice", IntV(1), "Cup"),
                                             Ingredient("parsley", StrV("a bunch"), "") >>) >>] >>

\* The lines of a recipe: its ingredients, flattened section by section when
\* they are a dict.
RecipeLines(recipe) ==
    LET ingredients == Get(recipe, "ingredients", <<>>)
        section(k) == IF ingredients[k].islist THEN ingredients[k].list ELSE <<>>
    IN IF recipe.nested THEN Concat(section, 1, Len(ingredients)) ELSE ingredients

\* What one line adds once its amount is parsed and servings_int is n:
\* nothing when the line is skipped, else the key, the scaled amount (0 for
\* an amount that is no number), the unit, the item and the recipe.
LineAddsOf(ing, recipe_name, parsed, n) ==
    LET item == Get(ing, "item", "")
        unit == Get(ing, "unit", "")
    IN IF "text" \in DOMAIN ing THEN <<>>
       ELSE IF parsed.skip THEN <<>>
       ELSE IF parsed.isnum /\ Negligible(parsed.v) THEN <<>>
       ELSE << [key |-> Lower(item \o "_" \o unit),
                add |-> IF ~parsed.isnum THEN IntN(0)
                        ELSE IF n > 1 THEN NumTimes(parsed.v, n) ELSE parsed.v,
                unit |-> unit, item |-> item, recipe |-> recipe_name] >>

\* What one line adds for a slot with servings_needed.
LineAdds(ing, recipe_name, servings_needed) ==
    LineAddsOf(ing, recipe_name, ParsedAmount(Get(ing, "amount", IntV(0))),
               servings_int(servings_needed))

\* A variant in which a slot of a recipe outside self.recipes is served the
\* first recipe.
SlotAddsFirstForUnknown(meal_info) ==
    LET named(r) == r.name = meal_info.recipe
        r == IF FirstIndex(recipes, named) = 0 THEN 1 ELSE FirstIndex(recipes, named)
        lines == RecipeLines(recipes[r])
        line(k) == LineAdds(lines[k], meal_info.recipe, Get(meal_info, "servings", IntV(1)))
    IN Concat(line, 1, Len(lines))

\* What a meal slot adds, line by line; nothing for a recipe that is not in
\* self.recipes.
SlotAdds(meal_info) ==
    LET named(r) == r.name = meal_info.recipe
        r == FirstIndex(recipes, named)
        lines == RecipeLines(recipes[r])
        line(k) == LineAdds(lines[k], meal_info.recipe, Get(meal_info, "servings", IntV(1)))
    IN IF r = 0 THEN <<>> ELSE Concat(line, 1, Len(lines))

\* The meal slots the plans of the model are made of: a recipe and the
\* servings the planner wrote, if it wrote any.
MealInfoPool == {
    [recipe |-> "rice_bowl", servings |-> IntV(1)],
    [recipe |-> "rice_bowl", servings |-> IntV(2)],
    [recipe |-> "rice_bowl", servings |-> IntV(0)],
    [recipe |-> "vinaigrette", servings |-> StrV("as desired")],
    [recipe |-> "vinaigrette", servings |-> IntV(3)],
    [recipe |-> "vinaigrette", servings |-> StrV("2")],
    [recipe |-> "lentils"],
    [recipe |-> "lentils", servings |-> StrV("many")],
    [recipe |-> "takeout", servings |-> IntV(2)] }

\* known_adds holds SlotAdds for the meal slots of the model, computed
\* once.
VARIABLE known_adds

\* SlotAdds for the meal slots of the model.
AddsTable == [meal_info \in MealInfoPool |-> SlotAdds(meal_info)]

\* What the plan adds, day by day and slot by slot.
PlanAdds(meal_plan) ==
    LET day(d) == LET meals == meal_plan.days[d].meals
                      slot(k) == known_adds[meals[k]]
                  IN Concat(slot, 1, Len(meals))
    IN Concat(day, 1, Len(meal_plan.days))

\* A variant of the update that counts a recipe once for a key: a line of
\* a recipe the bucket already names adds nothing.
AggregatedOncePerRecipe(totals, c) ==
    LET at(b) == b.key = c.key
        i == FirstIndex(totals, at)
        new == [key |-> c.key, amount |-> c.add, unit |-> c.unit,
                items |-> << c.item >>, recipes |-> {c.recipe}]
    IN IF i = 0 THEN Append(totals, new)
       ELSE IF c.recipe \in totals[i].recipes THEN totals
       ELSE [totals EXCEPT ![i] = [key |-> c.key,
                                   amount |-> NumAdd(totals[i].amount, c.add),
                                   unit |-> c.unit,
                                   items |-> Append(totals[i].items, c.item),
                                   recipes |-> totals[i].recipes \cup {c.recipe}]]

\* ingredient_totals[key] updated by one line; a key that is new gets the
\* bucket of the defaultdict first.
Aggregated(totals, c) ==
    LET at(b) == b.key = c.key
        i == FirstIndex(totals, at)
        old == IF i = 0
               THEN [key |-> c.key, amount |-> IntN(0), unit |-> "", items |-> <<>>,
                     recipes |-> {}]
               ELSE totals[i]
        new == [key |-> c.key, amount |-> NumAdd(old.amount, c.add), unit |-> c.unit,
                items |-> Append(old.items, c.item),
                recipes |-> old.recipes \cup {c.recipe}]
    IN IF i = 0 THEN Append(totals, new) ELSE [totals EXCEPT ![i] = new]

\* The totals after the first n lines the plan adds.
RECURSIVE TotalsAfter(_, _)
TotalsAfter(adds, n) ==
    IF n = 0 THEN <<>> ELSE Aggregated(TotalsAfter(adds, n - 1), adds[n])

\* ShoppingListGenerator._aggregate_ingredients: the buckets in the order
\* their keys were first met.
aggregate_ingredients(meal_plan) ==
    LET adds == PlanAdds(meal_plan)
    IN TotalsAfter(adds, Len(adds))

(***************************************************************************)
(* price_api_service.py: PriceAPIService.  Times are minutes.              *)
(***************************************************************************)
\* round(x, 2) of a float: the exact value is rounded to hundredths, a tie
\* to the even one, and the float nearest to that decimal is returned.
Round2(x) ==
    LET h == ExactMul(x, FromNat(100))
        k == 0 - h.e
        n == Len(h.m)
        whole == IF k >= n THEN 0 ELSE BitsNat(SubSeq(h.m, 1, n - k))
        half == IF k > n THEN 0 ELSE h.m[n - k + 1]
        up == half = 1 /\ (k > 1 \/ whole % 2 = 1)
    IN IF IsZero(h) THEN FZero
       ELSE IF h.e >= 0 THEN x
       ELSE RatioFloat(IF up THEN whole + 1 ELSE whole, 100)

\* self.cache_duration = timedelta(hours=24)
cache_duration == 24 * 60

\* A Kroger token is taken to expire timedelta(minutes=25) after it is granted.
token_lifetime == 25

\* cache_key = f"{item_name}_{store}_{zipcode}"
cache_key(item_name, store, zipcode) == item_name \o "_" \o store \o "_" \o zipcode

\* A variant of the freshness test that still serves an entry of exactly
\* the cache duration.
FreshAtLimit(timestamp, at) == at - timestamp <= cache_duration

\* datetime.now() - cached_data['timestamp'] < self.cache_duration, at time at.
Fresh(timestamp, at) == at - timestamp < cache_duration

\* base_prices of _estimate_price, in insertion order, in cents.
base_prices == <<
    [key |-> "chicken thighs", cents |-> 250], [key |-> "chicken breast", cents |-> 399],
    [key |-> "salmon", cents |-> 1299], [key |-> "white fish", cents |-> 899],
    [key |-> "whiting", cents |-> 699], [key |-> "ground turkey", cents |-> 499],
    [key |-> "turkey bacon", cents |-> 599], [key |-> "eggs", cents |-> 499],
    [key |-> "sweet potato", cents |-> 129], [key |-> "onion", cents |-> 89],
    [key |-> "spinach", cents |-> 299], [key |-> "tomato", cents |-> 199],
    [key |-> "bell pepper", cents |-> 149], [key |-> "avocado", cents |-> 199],
    [key |-> "lemon", cents |-> 79], [key |-> "rice", cents |-> 150],
    [key |-> "olive oil", cents |-> 899], [key |-> "coconut oil", cents |-> 799],
    [key |-> "canned tomatoes", cents |-> 129], [key |-> "beans", cents |-> 119],
    [key |-> "lentils", cents |-> 149], [key |-> "pasta", cents |-> 129],
    [key |-> "oats", cents |-> 399] >>

\* store_multipliers of _estimate_price, in hundredths.
store_multipliers ==
    [costco |-> 85, whole_foods |-> 125, jewel |-> 100, petes_fresh_market |-> 95,
     aldi |-> 80]

\* A variant of the estimate that claims the confidence of a provider's quote.
EstimateOfHighConfidence(item_name, store, at) ==
    [item |-> Title(item_name), price |-> FZero, unit |-> "lb", price_per_unit |-> FZero,
     unit_type |-> "lb", store |-> store, source |-> "estimate", in_stock |-> TRUE,
     last_updated |-> at, confidence |-> "high"]

\* PriceAPIService._estimate_price at time at.
estimate_price(item_name, store, at) ==
    LET item_lower == Lower(item_name)
        matches(p) == Contains(p.key, item_lower)
        i == FirstIndex(base_prices, matches)
        estimated_price == IF i = 0 THEN FromNat(5) ELSE RatioFloat(base_prices[i].cents, 100)
        multiplier == IF store \in DOMAIN store_multipliers
                      THEN RatioFloat(store_multipliers[store], 100)
                      ELSE FromNat(1)
        final_price == FMul(estimated_price, multiplier)
    IN [item |-> Title(item_name), price |-> Round2(final_price), unit |-> "lb",
        price_per_unit |-> Round2(final_price), unit_type |-> "lb", store |-> store,
        source |-> "estimate", in_stock |-> TRUE, last_updated |-> at,
        confidence |-> "low"]

\* A lookup that yields no quote returns None.
NoQuote == [none |-> TRUE]

\* store_mapping of _fetch_from_instacart.
store_mapping ==
    [costco |-> "costco", whole_foods |-> "whole_foods", jewel |-> "jewel_osco",
     petes_fresh_market |-> "petes_fresh_market", aldi |-> "aldi"]

\* What the Instacart request can come to: it times out, answers with a
\* status other than 200, with a body that is no JSON, with no products, or
\* with a product.
InstacartOutcomes == {"timeout", "status_500", "malformed", "no_products", "product"}

\* PriceAPIService._fetch_from_instacart at time at, the request coming to
\* outcome: every exception is caught and gives None.
fetch_from_instacart(item_name, store, at, outcome) ==
    IF store \notin DOMAIN store_mapping THEN NoQuote
    ELSE IF outcome = "product"
    THEN [item |-> "Store Brand",
          price |-> FromNat(3), unit |-> "each", price_per_unit |-> FZero,
          unit_type |-> "each", store |-> store, source |-> "instacart",
          in_stock |-> TRUE, last_updated |-> at, confidence |-> "high"]
    ELSE NoQuote

\* What the Kroger requests can come to: the token request is granted or
\* refused; the search times out, finds no supported location, no product,
\* or a product.
KrogerOutcomes ==
    [token : {"granted", "refused"},
     search : {"timeout", "no_location", "no_product", "product"}]

\* PriceAPIService._get_kroger_token at time at: the token kept (held, with
\* its expiry) is returned while it is valid, else one is requested.
get_kroger_token(held, expiry, at, outcome) ==
    IF held /\ at < expiry THEN [token |-> TRUE, held |-> held, expiry |-> expiry]
    ELSE IF outcome.token = "granted"
    THEN [token |-> TRUE, held |-> TRUE, expiry |-> at + token_lifetime]
    ELSE [token |-> FALSE, held |-> held, expiry |-> expiry]

\* PriceAPIService._fetch_from_kroger at time at, given whether a token was
\* obtained.
fetch_from_kroger(item_name, at, token, outcome) ==
    IF ~token THEN NoQuote
    ELSE IF outcome.search = "product"
    THEN [item |-> "Kroger Brand", price |-> FromNat(4), unit |-> "each",
          price_per_unit |-> FromNat(4), unit_type |-> "each", store |-> "jewel",
          source |-> "kroger", in_stock |-> TRUE, last_updated |-> at,
          confidence |-> "high"]
    ELSE NoQuote

\* A variant of _cache_price that keeps estimates out of the cache.
CacheProviderQuotesOnly(entries, key, data, at) ==
    IF data.source = "estimate" THEN entries
    ELSE [k \in DOMAIN entries \cup {key} |->
             IF k = key THEN [data |-> data, timestamp |-> at] ELSE entries[k]]

\* A variant of _cache_price that drops the entries that have expired.
CachePriceEvictingExpired(entries, key, data, at) ==
    [k \in {e \in DOMAIN entries : at - entries[e].timestamp < cache_duration} \cup {key} |->
        IF k = key THEN [data |-> data, timestamp |-> at] ELSE entries[k]]

\* PriceAPIService._cache_price at time at: self.cache[key] = {data, timestamp}.
cache_price(entries, key, data, at) ==
    [k \in DOMAIN entries \cup {key} |->
        IF k = key THEN [data |-> data, timestamp |-> at] ELSE entries[k]]

\* self.cache = {}
EmptyCache == [k \in {} |-> NoQuote]

\* The calls of get_price the model makes: an item of the price table, an item
\* outside it, and a store outside the multipliers; the last two have one
\* cache key.
Requests == {
    [item_name |-> "eggs", store |-> "costco", zipcode |-> "60827"],
    [item_name |-> "plum_jam", store |-> "jewel", zipcode |-> "60827"],
    [item_name |-> "plum", store |-> "jam_jewel", zipcode |-> "60827"] }

\* known_estimates holds the estimate for the calls of the model, computed
\* once, at time 0.
VARIABLE known_estimates

EstimateTable == [r \in Requests |-> estimate_price(r.item_name, r.store, 0)]

\* The estimate for a call of the model at time at.
EstimateFor(r, at) == [known_estimates[r] EXCEPT !.last_updated = at]

\* ---------------------------------------------------------------------
\* The routing of a shopping list.

\* The most entries a shopping list of the model holds.
MaxItems == 2

\* The stores a generated shopping list files its entries under, in the
\* order of store_priority.
ListedStores == <<"costco", "whole_foods">>

\* shopping_list and selected_stores are the arguments of the call of
\* apply_smart_routing, routed is what it returned.
VARIABLES shopping_list, selected_stores, routed

\* No routing has been asked for yet.
NotRouted == [pending |-> TRUE]

\* The shopping list generate_shopping_list returns before any entry is
\* filed.
EmptyList ==
    [meal_plan_dates |-> "2026-01-20 to 2026-02-02", people |-> 2,
     budget |-> 400, stores |-> <<>>]

\* The entries the list holds under a store.
ItemsUnder(list, store) ==
    LET at(p) == p.id = store
        b == FirstIndex(list.stores, at)
    IN IF b = 0 THEN <<>> ELSE list.stores[b].data.items

\* shopping_by_store[store]['items'].append(entry); the stores of the list
\* stand in the order of store_priority.
WithEntry(list, store, entry) ==
    LET items(k) == IF ListedStores[k] = store
                    THEN Append(ItemsUnder(list, store), entry)
                    ELSE ItemsUnder(list, ListedStores[k])
        bucket(k) == IF Len(items(k)) = 0 THEN <<>>
                     ELSE << [id |-> ListedStores[k], data |-> [items |-> items(k)]] >>
    IN [list EXCEPT !.stores = Concat(bucket, 1, Len(ListedStores))]

\* _find_store_for_ingredient looks the store up by ingredient_name.lower()
\* with '_' replaced by ' ': entries of one such name are filed together.
ing_lower(entry) == Replace(Lower(entry.item), "_", " ")

\* meal_plan is the plan handed to _aggregate_ingredients, ingredient_totals
\* what it returned.
VARIABLES meal_plan, ingredient_totals

\* The ingredients of the recipe 'custom' of self.recipes, as loaded: its
\* lines, none when the recipe book holds no such recipe.
VARIABLE custom_ingredients

\* known_entries holds the entries made of the inputs of the model, computed
\* once.
VARIABLE known_entries

\* The entry clean_shopping_list_item is called with, and what it returned.
VARIABLES list_item, cleaned

\* clean_shopping_list_item has not been called.
NoItem == [item |-> "", amount |-> NoneV, unit |-> ""]

NotCleaned == [done |-> FALSE]

\* No aggregation has been asked for yet.
NotAggregated == [pending |-> TRUE]

\* What _aggregate_ingredients returned.
Returned(buckets) == [pending |-> FALSE, buckets |-> buckets]

\* A meal plan without days.
EmptyPlan ==
    [start_date |-> "2026-01-20", end_date |-> "2026-02-02", people |-> 2, days |-> <<>>]

\* The service's configuration (whether a key or client id is set), its
\* cache and Kroger token, the clock datetime.now() reads, and the call of
\* get_price that has just returned, if the last step was one.
VARIABLES instacart_key, kroger_client_id, cache, kroger_token, kroger_token_expiry
VARIABLES now, last_call

\* The calls of get_price that threads sharing the service are in: for each
\* thread the line it is at and its local variables.
VARIABLE calls

\* The last step was no call of get_price.
NoCall == [pending |-> TRUE]

routeVars == <<shopping_list, selected_stores, routed, known_scores>>

aggVars == <<meal_plan, ingredient_totals, known_adds, known_entries, custom_ingredients, list_item, cleaned>>

priceVars == <<instacart_key, kroger_client_id, cache, kroger_token, kroger_token_expiry,
               now, last_call, known_estimates, calls>>

vars == <<routeVars, aggVars, priceVars>>

\* The router is not in use.
RouteIdle ==
    /\ shopping_list = EmptyList
    /\ selected_stores = <<>>
    /\ routed = NotRouted
    /\ known_scores = <<>>

\* The aggregator is not in use.
AggIdle ==
    /\ meal_plan = EmptyPlan
    /\ ingredient_totals = NotAggregated
    /\ known_adds = <<>>
    /\ known_entries = <<>>
    /\ custom_ingredients = <<>>
    /\ list_item = NoItem
    /\ cleaned = NotCleaned

\* The price service is not in use.
PriceIdle ==
    /\ instacart_key = FALSE
    /\ kroger_client_id = FALSE
    /\ cache = EmptyCache
    /\ kroger_token = FALSE
    /\ kroger_token_expiry = 0
    /\ now = 0
    /\ last_call = NoCall
    /\ known_estimates = <<>>
    /\ calls = <<>>

InitRoute ==
    /\ shopping_list = EmptyList
    /\ selected_stores = <<>>
    /\ routed = NotRouted
    /\ known_scores = ScoreTable
    /\ AggIdle
    /\ PriceIdle

\* The shopping list gains an entry under one of its stores; the list
\* holds one entry for an item and unit.
AddEntry ==
    /\ routed = NotRouted
    /\ Len(ListedItems(shopping_list)) < MaxItems
    /\ \E store \in Range(ListedStores), entry \in EntryPool :
           /\ entry \notin Range(ListedItems(shopping_list))
           /\ \A e \in Range(ListedItems(shopping_list)) :
                  ing_lower(e) = ing_lower(entry) => e \in Range(ItemsUnder(shopping_list, store))
           /\ shopping_list' = WithEntry(shopping_list, store, entry)
    /\ UNCHANGED <<selected_stores, routed, known_scores, aggVars, priceVars>>

\* The caller routes the list over the stores it selects.
ApplySmartRouting ==
    /\ routed = NotRouted
    /\ \E selection \in Selections :
           /\ selected_stores' = selection
           /\ routed' = apply_smart_routing(shopping_list, selection)
    /\ UNCHANGED <<shopping_list, known_scores, aggVars, priceVars>>

NextRoute == AddEntry \/ ApplySmartRouting

SpecRoute == InitRoute /\ [][NextRoute]_vars

\* ---------------------------------------------------------------------
\* Claims about the routing.

\* A routing over two or more selected stores has been returned.
RoutedOverSeveral == routed # NotRouted /\ Len(selected_stores) >= 2

\* The entries of every bucket of the returned list, with the bucket's store.
Placed ==
    LET bucket(b) == [i \in 1..Len(routed.stores[b].data.items) |->
                         [store |-> routed.stores[b].id,
                          entry |-> routed.stores[b].data.items[i]]]
    IN Range(Concat(bucket, 1, Len(routed.stores)))

\* The first place of a store among the normalized selected stores.
PlaceOf(store, sel) == CHOOSE j \in 1..Len(sel) :
                           sel[j] = store /\ \A k \in 1..(j - 1) : sel[k] # store

\* C1: with two or more selected stores every ingredient is filed under a
\* selected store whose score for it no selected store exceeds, and every
\* store selected before that one scores strictly less.
C1_HighestScoreFirstWins ==
    RoutedOverSeveral =>
        LET sel == normalized_stores(selected_stores)
        IN /\ \A e \in Range(ListedItems(shopping_list)) :
                  \E p \in Placed : Strip(Lower(p.entry.item)) = Strip(Lower(e.item))
           /\ \A p \in Placed :
                  /\ p.store \in Range(sel)
                  /\ \A j \in 1..Len(sel) :
                         /\ StoreScore(sel[j], p.entry) <= StoreScore(p.store, p.entry)
                         /\ j < PlaceOf(p.store, sel) =>
                                StoreScore(sel[j], p.entry) < StoreScore(p.store, p.entry)

\* An ingredient for which two selected stores share the highest score has
\* been routed.
C1_Witness ==
    /\ RoutedOverSeveral
    /\ \E p \in Placed : \E s \in Range(normalized_stores(selected_stores)) :
           s # p.store /\ StoreScore(s, p.entry) = StoreScore(p.store, p.entry)

\* The list with the entries of every name moved to the store f gives the
\* name, each bucket in the order the entries were listed.
Refiled(list, f) ==
    LET listed == ListedItems(list)
        bucket(k) ==
            LET here(i) == f[ing_lower(listed[i])] = ListedStores[k]
                items == Keep(listed, here)
            IN IF Len(items) = 0 THEN <<>>
               ELSE << [id |-> ListedStores[k], data |-> [items |-> items]] >>
    IN [list EXCEPT !.stores = Concat(bucket, 1, Len(ListedStores))]

C3_SingleStoreHoldsEverything ==
    /\ (routed # NotRouted /\ Len(selected_stores) = 1) =>
           /\ \A b \in 1..Len(routed.stores) :
                  routed.stores[b].id \in Range(normalized_stores(selected_stores))
           /\ {p.entry : p \in Placed} = Range(ListedItems(shopping_list))
    /\ (routed # NotRouted /\ Len(selected_stores) = 0) => routed = shopping_list

\* A call with one selected store has returned a list that holds entries.
C3_Witness ==
    /\ routed # NotRouted
    /\ Len(selected_stores) = 1
    /\ Len(ListedItems(shopping_list)) > 0

\* ---------------------------------------------------------------------
\* The aggregation of a meal plan.

\* The most meal slots a meal plan of the model holds.
MaxSlots == 2

\* The meal slots of the plan, day after day.
PlannedMeals(plan) ==
    LET day(d) == plan.days[d].meals
    IN Concat(day, 1, Len(plan.days))

InitAgg ==
    /\ meal_plan = EmptyPlan
    /\ ingredient_totals = NotAggregated
    /\ known_adds = AddsTable
    /\ known_entries = <<>>
    /\ custom_ingredients = <<>>
    /\ list_item = NoItem
    /\ cleaned = NotCleaned
    /\ RouteIdle
    /\ PriceIdle

\* The planner opens the next day of the plan.
NewDay ==
    /\ ingredient_totals = NotAggregated
    /\ Len(PlannedMeals(meal_plan)) < MaxSlots
    /\ IF Len(meal_plan.days) = 0 THEN TRUE
       ELSE Len(meal_plan.days[Len(meal_plan.days)].meals) > 0
    /\ meal_plan' = [meal_plan EXCEPT !.days = Append(@, [meals |-> <<>>])]
    /\ UNCHANGED <<ingredient_totals, known_adds, known_entries, custom_ingredients, list_item, cleaned, routeVars, priceVars>>

\* The planner fills a meal slot of the day.
AddMeal ==
    /\ ingredient_totals = NotAggregated
    /\ Len(PlannedMeals(meal_plan)) < MaxSlots
    /\ Len(meal_plan.days) > 0
    /\ \E meal_info \in MealInfoPool :
           meal_plan' = [meal_plan EXCEPT !.days[Len(meal_plan.days)].meals =
                                              Append(@, meal_info)]
    /\ UNCHANGED <<ingredient_totals, known_adds, known_entries, custom_ingredients, list_item, cleaned, routeVars, priceVars>>

\* The generator aggregates the plan.
AggregateIngredients ==
    /\ ingredient_totals = NotAggregated
    /\ ingredient_totals' = Returned(aggregate_ingredients(meal_plan))
    /\ UNCHANGED <<meal_plan, known_adds, known_entries, custom_ingredients, list_item, cleaned, routeVars, priceVars>>

NextAgg == NewDay \/ AddMeal \/ AggregateIngredients

SpecAgg == InitAgg /\ [][NextAgg]_vars

\* ---------------------------------------------------------------------
\* Claims about the aggregation.

\* The aggregation of the plan has returned.
AggregationReturned == ingredient_totals # NotAggregated

\* The lines among adds that go to the key, in their order.
AddsTo(adds, key) ==
    LET at(i) == adds[i].key = key
    IN Keep(adds, at)

\* The sum of the first n amounts of adds, taken in their order from 0.
RECURSIVE SumOfAdds(_, _)
SumOfAdds(adds, n) ==
    IF n = 0 THEN IntN(0) ELSE NumAdd(SumOfAdds(adds, n - 1), adds[n].add)

\* C4: the returned buckets are the keys of the lines the plan adds, one
\* bucket a key; a bucket's total is the sum, in the plan's order, of the
\* scaled amount of every occurrence of a line with that key, and its recipe
\* set is the set of the recipes those lines come from.
C4_TotalIsSumOverOccurrences ==
    AggregationReturned =>
        LET adds == PlanAdds(meal_plan)
            buckets == ingredient_totals.buckets
        IN /\ \A i \in 1..Len(adds) : \E b \in 1..Len(buckets) : buckets[b].key = adds[i].key
           /\ \A b \in 1..Len(buckets) :
                  LET mine == AddsTo(adds, buckets[b].key)
                  IN /\ Len(mine) > 0
                     /\ \A c \in 1..Len(buckets) : buckets[c].key = buckets[b].key => c = b
                     /\ buckets[b].amount = SumOfAdds(mine, Len(mine))
                     /\ buckets[b].recipes = {mine[i].recipe : i \in 1..Len(mine)}
                     /\ Len(buckets[b].items) = Len(mine)

\* rice_bowl, 2 cup of Rice, planned on two days at servings 1: a total of 4
\* cup from two lines, the recipe named once.
C4_Witness ==
    /\ AggregationReturned
    /\ Len(meal_plan.days) = 2
    /\ \A d \in 1..2 : meal_plan.days[d].meals = << [recipe |-> "rice_bowl", servings |-> IntV(1)] >>
    /\ \E b \in 1..Len(ingredient_totals.buckets) :
           /\ ingredient_totals.buckets[b].key = "rice_cup"
           /\ ingredient_totals.buckets[b].amount = IntN(4)
           /\ ingredient_totals.buckets[b].recipes = {"rice_bowl"}
           /\ Len(ingredient_totals.buckets[b].items) = 2

\* The plan with its days in the order p and the slots of day d in the
\* order q.
Rearranged(plan, p, d, q) ==
    LET days == plan.days
        slots(k) == IF k = d THEN [i \in 1..Len(days[k].meals) |-> days[k].meals[q[i]]]
                    ELSE days[k].meals
    IN [plan EXCEPT !.days = [k \in 1..Len(days) |-> [meals |-> slots(p[k])]]]

\* The keys of the buckets with their totals and recipe sets.
TotalsByKey(buckets) ==
    {[key |-> buckets[b].key, amount |-> buckets[b].amount, recipes |-> buckets[b].recipes] :
         b \in 1..Len(buckets)}

\* C5: the plan with its days in any other order, and the slots of a day in
\* any other order, aggregates to the same keys with the same totals and
\* recipe sets.
C5_OrderIndependent ==
    AggregationReturned =>
        \A p \in Permutations(1..Len(meal_plan.days)) :
            \A d \in 1..Len(meal_plan.days) :
                \A q \in Permutations(1..Len(meal_plan.days[d].meals)) :
                    TotalsByKey(aggregate_ingredients(Rearranged(meal_plan, p, d, q)))
                        = TotalsByKey(ingredient_totals.buckets)

\* vinaigrette as desired and then lentils, in one day: olive oil_cup is
\* (0.1 + 0.1) + 0.25 = 0.45, where lentils first gives
\* (0.1 + 0.25) + 0.1 = 0.44999999999999996.
C5_Witness ==
    /\ AggregationReturned
    /\ PlannedMeals(meal_plan) = << [recipe |-> "vinaigrette", servings |-> StrV("as desired")],
                                    [recipe |-> "lentils"] >>
    /\ \E b \in 1..Len(ingredient_totals.buckets) :
           /\ ingredient_totals.buckets[b].key = "olive oil_cup"
           /\ ingredient_totals.buckets[b].amount = FloatN(RatioFloat(45, 100))

\* The factor the slot scales by: n for servings that are an integer n > 1,
\* written as a number or as text; 1 for every other slot.
ClaimedFactor(meal_info) ==
    IF "servings" \notin DOMAIN meal_info THEN 1
    ELSE IF meal_info.servings.t = "int" /\ meal_info.servings.n > 1 THEN meal_info.servings.n
    ELSE IF meal_info.servings.t = "str" /\ IsDigits(meal_info.servings.s)
            /\ DigitsNat(meal_info.servings.s) > 1
    THEN DigitsNat(meal_info.servings.s)
    ELSE 1

\* What the slot adds when every amount of its recipe is multiplied by
\* ClaimedFactor.
ClaimedSlotAdds(meal_info) ==
    LET named(r) == r.name = meal_info.recipe
        r == FirstIndex(recipes, named)
        lines == RecipeLines(recipes[r])
        line(k) == LineAddsOf(lines[k], meal_info.recipe,
                              ParsedAmount(Get(lines[k], "amount", IntV(0))),
                              ClaimedFactor(meal_info))
    IN IF r = 0 THEN <<>> ELSE Concat(line, 1, Len(lines))

TickMinutes == 720

MaxNow == 1440

\* The service is constructed: the environment sets a key and a client id,
\* or not.
InitPrice ==
    /\ instacart_key \in BOOLEAN
    /\ kroger_client_id \in BOOLEAN
    /\ cache = EmptyCache
    /\ kroger_token = FALSE
    /\ kroger_token_expiry = 0
    /\ now = 0
    /\ last_call = NoCall
    /\ known_estimates = EstimateTable
    /\ calls = <<>>
    /\ RouteIdle
    /\ AggIdle

\* A variant of the Kroger tier's condition that asks Kroger for every store.
KrogerServesEveryStore(store) == kroger_client_id

\* store == 'jewel' and self.kroger_client_id
kroger_serves(store) == store = "jewel" /\ kroger_client_id

\* What get_price(r) does at the present time when the Instacart request
\* would come to ic and the Kroger requests to kr: the tiers it consults in
\* their order, the quote it returns, and the cache and token it leaves.
get_price(r, ic, kr) ==
    LET key == cache_key(r.item_name, r.store, r.zipcode)
        hit == IF key \in DOMAIN cache THEN Fresh(cache[key].timestamp, now) ELSE FALSE
        try_instacart == instacart_key
        from_instacart == IF try_instacart
                          THEN fetch_from_instacart(r.item_name, r.store, now, ic)
                          ELSE NoQuote
        try_kroger == from_instacart = NoQuote /\ kroger_serves(r.store)
        token == get_kroger_token(kroger_token, kroger_token_expiry, now, kr)
        from_kroger == IF try_kroger
                       THEN fetch_from_kroger(r.item_name, now, token.token, kr)
                       ELSE NoQuote
        price_data == IF from_instacart # NoQuote THEN from_instacart
                      ELSE IF from_kroger # NoQuote THEN from_kroger
                      ELSE EstimateFor(r, now)
    IN IF hit
       THEN [consulted |-> <<>>, yields |-> <<>>, returned |-> cache[key].data,
             cache |-> cache, held |-> kroger_token, expiry |-> kroger_token_expiry]
       ELSE [consulted |-> (IF try_instacart THEN <<"instacart">> ELSE <<>>)
                           \o (IF try_kroger THEN <<"kroger">> ELSE <<>>)
                           \o (IF price_data.source = "estimate" THEN <<"estimate">> ELSE <<>>),
             yields |-> (IF try_instacart THEN << from_instacart # NoQuote >> ELSE <<>>)
                        \o (IF try_kroger THEN << from_kroger # NoQuote >> ELSE <<>>)
                        \o (IF price_data.source = "estimate" THEN << TRUE >> ELSE <<>>),
             returned |-> price_data,
             cache |-> cache_price(cache, key, price_data, now),
             held |-> IF try_kroger THEN token.held ELSE kroger_token,
             expiry |-> IF try_kroger THEN token.expiry ELSE kroger_token_expiry]

\* A provider that is not configured is not asked and has no outcome.
Unasked == "unasked"

\* A caller gets a price; the providers that are configured answer as they
\* will.  last_call keeps the request, the tiers consulted with whether each
\* yielded a quote, and the quote returned.
GetPrice ==
    /\ \E r \in Requests :
       \E ic \in IF instacart_key THEN InstacartOutcomes ELSE {Unasked} :
       \E kr \in IF kroger_serves(r.store) THEN KrogerOutcomes ELSE {Unasked} :
           LET call == get_price(r, ic, kr)
           IN /\ cache' = call.cache
              /\ kroger_token' = call.held
              /\ kroger_token_expiry' = call.expiry
              /\ last_call' = [pending |-> FALSE, request |-> r,
                               consulted |-> call.consulted, yields |-> call.yields,
                               returned |-> call.returned]
    /\ UNCHANGED <<instacart_key, kroger_client_id, now, known_estimates, calls, routeVars,
                   aggVars>>

\* PriceAPIService.clear_cache
ClearCache ==
    /\ cache' = EmptyCache
    /\ last_call' = NoCall
    /\ UNCHANGED <<instacart_key, kroger_client_id, kroger_token, kroger_token_expiry, now,
                   known_estimates, calls, routeVars, aggVars>>

\* Time passes.
Tick ==
    /\ now + TickMinutes <= MaxNow
    /\ now' = now + TickMinutes
    /\ last_call' = NoCall
    /\ UNCHANGED <<instacart_key, kroger_client_id, cache, kroger_token, kroger_token_expiry,
                   known_estimates, calls, routeVars, aggVars>>

NextPrice == GetPrice \/ ClearCache \/ Tick

SpecPrice == InitPrice /\ [][NextPrice]_vars

\* ---------------------------------------------------------------------
\* Claims about the price service.

\* A call of get_price has just returned.
JustCalled == last_call # NoCall

\* The cache key of a request.
KeyOf(r) == r.item_name \o "_" \o r.store \o "_" \o r.zipcode

\* 24 hours.
Day == 24 * 60

\* C7: a call of get_price returns the cached quote, consulting no tier and
\* leaving the entry and its timestamp as they are, if and only if the cache
\* holds an entry for the key that was written less than 24 hours before;
\* otherwise it makes a lookup, and the entry becomes the returned quote with
\* the present time as its timestamp.
C7_HitIffYoungerThanADay ==
    [][ last_call' # NoCall =>
            LET key == KeyOf(last_call'.request)
                young == IF key \in DOMAIN cache THEN now - cache[key].timestamp < Day
                         ELSE FALSE
            IN IF young
               THEN /\ last_call'.consulted = <<>>
                    /\ last_call'.returned = cache[key].data
                    /\ cache' = cache
               ELSE /\ last_call'.consulted # <<>>
                    /\ cache'[key] = [data |-> last_call'.returned, timestamp |-> now'] ]_vars

\* A call has been served from an entry written 12 hours before.
C7_Witness ==
    /\ JustCalled
    /\ last_call.consulted = <<>>
    /\ now - cache[KeyOf(last_call.request)].timestamp = TickMinutes

\* C8: with neither an Instacart key nor a Kroger client id, every call of
\* get_price returns a quote of source 'estimate' and confidence 'low'.
C8_EstimateWhenNoProvider ==
    (JustCalled /\ ~instacart_key /\ ~kroger_client_id) =>
        /\ last_call.returned.source = "estimate"
        /\ last_call.returned.confidence = "low"

\* Without providers, a lookup for an item outside the price table at a store
\* outside the multipliers has returned the default estimate of 5.0.
C8_Witness ==
    /\ JustCalled
    /\ ~instacart_key /\ ~kroger_client_id
    /\ last_call.request.store = "jam_jewel"
    /\ last_call.consulted = << "estimate" >>
    /\ last_call.returned.source = "estimate"
    /\ last_call.returned.price = FromNat(5)

\* The place of a tier among the tiers consulted, 0 when it was not.
ConsultedAt(tier) ==
    LET named(t) == t = tier
    IN FirstIndex(last_call.consulted, named)

\* C9: a call that misses the cache consults Instacart exactly when its key
\* is configured, Kroger exactly when the store is 'jewel', a client id is
\* configured and Instacart was not consulted or yielded no quote, and the
\* estimator exactly when no provider consulted yielded a quote; the tiers
\* are consulted in that order, and the quote returned is that of the last
\* tier consulted, the only one that yielded one.
C9_TiersInOrder ==
    (JustCalled /\ last_call.consulted # <<>>) =>
        LET tiers == last_call.consulted
            i == ConsultedAt("instacart")
            k == ConsultedAt("kroger")
            e == ConsultedAt("estimate")
        IN /\ i > 0 <=> instacart_key
           /\ k > 0 <=> /\ last_call.request.store = "jewel"
                        /\ kroger_client_id
                        /\ i > 0 => ~last_call.yields[i]
           /\ e > 0 <=> /\ i > 0 => ~last_call.yields[i]
                        /\ k > 0 => ~last_call.yields[k]
           /\ Len(tiers) = Cardinality({i, k, e} \ {0})
           /\ i > 0 => i = 1
           /\ (k > 0 /\ e > 0) => k < e
           /\ \A t \in 1..Len(tiers) : last_call.yields[t] <=> t = Len(tiers)
           /\ last_call.returned.source = tiers[Len(tiers)]

\* Both providers were asked and yielded nothing, and the estimate came back.
C9_Witness ==
    /\ JustCalled
    /\ last_call.consulted = << "instacart", "kroger", "estimate" >>
    /\ last_call.returned.source = "estimate"

\* C10: after every call of get_price the cache entry for the request's key
\* holds the quote returned; after a call that made a lookup the entry has
\* the present time as its timestamp.
C10_ReturnedQuoteIsCached ==
    JustCalled =>
        LET key == KeyOf(last_call.request)
        IN /\ key \in DOMAIN cache
           /\ cache[key].data = last_call.returned
           /\ last_call.consulted # <<>> => cache[key].timestamp = now

\* Each tier's quote has been returned and cached: the entry of one key is
\* Kroger's while the call just made stored an estimate under another, or
\* Instacart's.
C10_Witness ==
    /\ JustCalled
    /\ last_call.consulted # <<>>
    /\ last_call.returned.source \in {"estimate", "instacart"}
    /\ cache[KeyOf(last_call.request)].data = last_call.returned
    /\ \E key \in DOMAIN cache : cache[key].data.source = "kroger"

\* ---------------------------------------------------------------------
\* Threads sharing one price service, without a lock.

\* The threads.
Threads == {1, 2}

\* The calls the threads make: one at a store Instacart serves, one at the
\* store Kroger serves.
ThreadRequests ==
    {r \in Requests : r.store \in {"costco", "jewel"}}

\* A thread that is in no call and has made none.
Idle == [line |-> "idle"]

\* Lines 101-118 of get_price at the present time: the tiers consulted, the
\* quote to cache and return, and the Kroger token left.
fresh_lookup(r, ic, kr) ==
    LET from_instacart == IF instacart_key
                          THEN fetch_from_instacart(r.item_name, r.store, now, ic)
                          ELSE NoQuote
        try_kroger == from_instacart = NoQuote /\ kroger_serves(r.store)
        token == get_kroger_token(kroger_token, kroger_token_expiry, now, kr)
        from_kroger == IF try_kroger
                       THEN fetch_from_kroger(r.item_name, now, token.token, kr)
                       ELSE NoQuote
    IN [price_data |-> IF from_instacart # NoQuote THEN from_instacart
                       ELSE IF from_kroger # NoQuote THEN from_kroger
                       ELSE EstimateFor(r, now),
        held |-> IF try_kroger THEN token.held ELSE kroger_token,
        expiry |-> IF try_kroger THEN token.expiry ELSE kroger_token_expiry]

InitRace ==
    /\ instacart_key \in BOOLEAN
    /\ kroger_client_id \in BOOLEAN
    /\ cache = EmptyCache
    /\ kroger_token = FALSE
    /\ kroger_token_expiry = 0
    /\ now = 0
    /\ last_call = NoCall
    /\ known_estimates = EstimateTable
    /\ calls = [t \in Threads |-> Idle]
    /\ RouteIdle
    /\ AggIdle

\* A thread that is in no call calls get_price: cache_key is computed.
BeginCall(t) ==
    /\ calls[t].line \in {"idle", "returned", "raised"}
    /\ \E r \in ThreadRequests :
           calls' = [calls EXCEPT ![t] =
                        [line |-> "check", request |-> r,
                         cache_key |-> cache_key(r.item_name, r.store, r.zipcode)]]
    /\ UNCHANGED <<instacart_key, kroger_client_id, cache, kroger_token, kroger_token_expiry,
                   now, last_call, known_estimates, routeVars, aggVars>>

\* if cache_key in self.cache:
CheckCache(t) ==
    /\ calls[t].line = "check"
    /\ calls' = [calls EXCEPT ![t].line =
                    IF calls[t].cache_key \in DOMAIN cache THEN "read" ELSE "lookup"]
    /\ UNCHANGED <<instacart_key, kroger_client_id, cache, kroger_token, kroger_token_expiry,
                   now, last_call, known_estimates, routeVars, aggVars>>

\* cached_data = self.cache[cache_key], which raises KeyError when the cache
\* now bound to self.cache has no such key; then the test of the entry's age,
\* and the return of its data when it is fresh.
ReadEntry(t) ==
    /\ calls[t].line = "read"
    /\ calls' = [calls EXCEPT ![t] =
                    IF calls[t].cache_key \notin DOMAIN cache
                    THEN [line |-> "raised", request |-> calls[t].request,
                          cache_key |-> calls[t].cache_key, error |-> "KeyError"]
                    ELSE IF Fresh(cache[calls[t].cache_key].timestamp, now)
                    THEN [line |-> "returned", request |-> calls[t].request,
                          cache_key |-> calls[t].cache_key,
                          result |-> cache[calls[t].cache_key].data]
                    ELSE [line |-> "lookup", request |-> calls[t].request,
                          cache_key |-> calls[t].cache_key]]
    /\ UNCHANGED <<instacart_key, kroger_client_id, cache, kroger_token, kroger_token_expiry,
                   now, last_call, known_estimates, routeVars, aggVars>>

\* The tiers are consulted until one yields price_data.
Lookup(t) ==
    /\ calls[t].line = "lookup"
    /\ \E ic \in IF instacart_key THEN InstacartOutcomes ELSE {Unasked} :
       \E kr \in IF kroger_serves(calls[t].request.store) THEN KrogerOutcomes ELSE {Unasked} :
           LET found == fresh_lookup(calls[t].request, ic, kr)
           IN /\ calls' = [calls EXCEPT ![t] =
                              [line |-> "store", request |-> calls[t].request,
                               cache_key |-> calls[t].cache_key,
                               price_data |-> found.price_data]]
              /\ kroger_token' = found.held
              /\ kroger_token_expiry' = found.expiry
    /\ UNCHANGED <<instacart_key, kroger_client_id, cache, now, last_call, known_estimates,
                   routeVars, aggVars>>

\* self._cache_price(cache_key, price_data); return price_data
StoreAndReturn(t) ==
    /\ calls[t].line = "store"
    /\ cache' = cache_price(cache, calls[t].cache_key, calls[t].price_data, now)
    /\ calls' = [calls EXCEPT ![t] =
                    [line |-> "returned", request |-> calls[t].request,
                     cache_key |-> calls[t].cache_key, result |-> calls[t].price_data]]
    /\ UNCHANGED <<instacart_key, kroger_client_id, kroger_token, kroger_token_expiry, now,
                   last_call, known_estimates, routeVars, aggVars>>

NextRace ==
    \/ \E t \in Threads : BeginCall(t)
    \/ \E t \in Threads : CheckCache(t)
    \/ \E t \in Threads : ReadEntry(t)
    \/ \E t \in Threads : Lookup(t)
    \/ \E t \in Threads : StoreAndReturn(t)
    \/ ClearCache
    \/ Tick

SpecRace == InitRace /\ [][NextRace]_vars

\* ---------------------------------------------------------------------
\* Claims about threads sharing the price service.

\* The fields of a quote.
QuoteFields ==
    {"item", "price", "unit", "price_per_unit", "unit_type", "store", "source", "in_stock",
     "last_updated", "confidence"}

\* C11: whatever the interleaving of the threads' calls of get_price and of
\* clear_cache, no call raises, every call that returned has returned a
\* complete quote, and every cache entry is a quote with a timestamp.
C11_RacesOnlyRepeatLookups ==
    /\ \A t \in Threads :
           /\ calls[t].line # "raised"
           /\ calls[t].line = "returned" => DOMAIN calls[t].result = QuoteFields
    /\ \A key \in DOMAIN cache :
           /\ DOMAIN cache[key] = {"data", "timestamp"}
           /\ DOMAIN cache[key].data = QuoteFields

\* Two threads have looked up the same key and both are about to store.
C11_Witness ==
    /\ calls[1].line = "store"
    /\ calls[2].line = "store"
    /\ calls[1].cache_key = calls[2].cache_key

\* ---------------------------------------------------------------------
\* More claims about the price service.

\* C12: a call of get_price leaves every cached key in the cache and every
\* entry but that of its own key as it is; a step that takes a key out of
\* the cache is clear_cache and leaves the cache empty, whatever the age of
\* the entries; and a call made on an empty cache makes a lookup.
C12_OnlyClearCacheRemoves ==
    [][ /\ last_call' # NoCall =>
               \A k \in DOMAIN cache :
                   /\ k \in DOMAIN cache'
                   /\ k # KeyOf(last_call'.request) => cache'[k] = cache[k]
        /\ (\E k \in DOMAIN cache : k \notin DOMAIN cache') =>
               /\ cache' = EmptyCache
               /\ last_call' = NoCall
        /\ (cache = EmptyCache /\ last_call' # NoCall) => last_call'.consulted # <<>> ]_vars

\* A call for one key has returned while the cache holds an entry of another
\* key that expired.
C12_Witness ==
    /\ JustCalled
    /\ \E k \in DOMAIN cache :
           /\ k # KeyOf(last_call.request)
           /\ now - cache[k].timestamp >= Day

\* ---------------------------------------------------------------------
\* The routing of one ingredient, quantity by quantity.

\* The amounts of a generated list's entries, as texts of two decimals;
\* they lie below, at and above every threshold of the scoring.
AmountPool == {"0.20", "0.49", "0.50", "0.75", "1.00", "1.50", "2.00", "2.50",
               "3.00", "4.00", "5.00", "6.00"}

\* The item names of the entries.
ItemPool == {"fresh basil", "Cilantro", "basil powder", "rosemary", "rice",
             "cumin powder", "saffron"}

\* The entries routed one at a time: every item at every amount, in cups.
QuantityPool == {Entry(i, StrV(a), "cup") : i \in ItemPool, a \in AmountPool}

\* The selections of two stores a caller passes, as typed.
PairSelections == {
    <<"costco", "whole_foods">>,
    <<"whole_foods", "costco">>,
    <<"Cost Co", "aldi">>,
    <<"costco", "cost_co">>,
    <<"Trader Joe's", "costco">>,
    <<"jewel", "corner_shop">>,
    <<"petes_fresh_market", "jewel">> }

\* The store ids the pair selections normalize to.
PairStores ==
    UNION {Range(normalized_stores(selection)) : selection \in PairSelections}

\* ScoreOf for the stores of the pair selections and the entries of the
\* quantity pool.
QuantityScoreTable == [p \in PairStores \X QuantityPool |-> ScoreOf(p[1], p[2])]

InitQuantity ==
    /\ shopping_list = EmptyList
    /\ selected_stores = <<>>
    /\ routed = NotRouted
    /\ known_scores = QuantityScoreTable
    /\ AggIdle
    /\ PriceIdle

\* The generated list holds one entry, under one of its stores.
ListEntry ==
    /\ routed = NotRouted
    /\ shopping_list = EmptyList
    /\ \E store \in Range(ListedStores), entry \in QuantityPool :
           shopping_list' = WithEntry(shopping_list, store, entry)
    /\ UNCHANGED <<selected_stores, routed, known_scores, aggVars, priceVars>>

\* The caller routes the list over the two stores it selects.
RouteOverPair ==
    /\ routed = NotRouted
    /\ \E selection \in PairSelections :
           /\ selected_stores' = selection
           /\ routed' = apply_smart_routing(shopping_list, selection)
    /\ UNCHANGED <<shopping_list, known_scores, aggVars, priceVars>>

NextQuantity == ListEntry \/ RouteOverPair

SpecQuantity == InitQuantity /\ [][NextQuantity]_vars

\* ---------------------------------------------------------------------
\* Claims about the scores.

\* The quantity, in standard cups, route_ingredients scores an entry at.
QuantityOf(entry) ==
    convert_to_standard_unit(Get(entry, "amount", IntV(0)), Get(entry, "unit", "cup"))

\* The category of an entry, as score_store_for_ingredient finds it.
CategoryOf(entry) == categorize_ingredient(Lower(entry.item))

\* C13: with costco and whole_foods selected, in either order, every
\* ingredient categorized as fresh_herbs is assigned to whole_foods, at
\* every quantity, and whole_foods scores strictly higher than costco.
C13_FreshHerbsGoToWholeFoods ==
    (RoutedOverSeveral /\ Range(selected_stores) = {"costco", "whole_foods"}) =>
        \A e \in Range(ListedItems(shopping_list)) :
            CategoryOf(e) = "fresh_herbs" =>
                /\ StoreScore("whole_foods", e) > StoreScore("costco", e)
                /\ [store |-> "whole_foods", entry |-> e] \in Placed
                /\ \A p \in Placed : p.store = "whole_foods"

\* A fresh herb of five cups or more, where costco earns its bulk bonus,
\* has been routed with costco selected first.
C13_Witness ==
    /\ RoutedOverSeveral
    /\ selected_stores = <<"costco", "whole_foods">>
    /\ \E p \in Placed :
           /\ CategoryOf(p.entry) = "fresh_herbs"
           /\ ~FLess(QuantityOf(p.entry), FromNat(5))

\* The tier of the small-quantity penalty a quantity falls in.
ClaimedTier(q) ==
    IF FLess(q, RatioFloat(1, 2)) THEN 0 - 60
    ELSE IF FLess(q, FromNat(1)) THEN 0 - 40
    ELSE IF FLess(q, FromNat(2)) THEN 0 - 25
    ELSE IF FLess(q, FromNat(3)) THEN 0 - 15
    ELSE 0

\* The score of a store before clamping with the small-quantity tiers left
\* out: the tiers are the one adjustment that reads the store id.
OtherAdjustments(store_id, entry) ==
    RawScore("", Lower(entry.item), CategoryOf(entry), get_store_profile(store_id),
             QuantityOf(entry))

\* C14: the score of every selected store whose profile type is bulk holds
\* exactly one tier of the small-quantity penalty (-60 below 0.5 cups, -40
\* below 1, -25 below 2, -15 below 3, none from 3 on), and the score of a
\* store of any other type holds none.
C14_TierForEveryBulkStore ==
    RoutedOverSeveral =>
        \A s \in Range(normalized_stores(selected_stores)) :
            \A e \in Range(ListedItems(shopping_list)) :
                StoreScore(s, e) =
                    Max2(0, Min2(100, OtherAdjustments(s, e)
                                      + (IF get_store_profile(s).type = "bulk"
                                         THEN ClaimedTier(QuantityOf(e)) ELSE 0)))

\* An ingredient of less than three cups has been scored for a selected
\* store whose profile type is bulk.
C14_Witness ==
    /\ RoutedOverSeveral
    /\ \E s \in Range(normalized_stores(selected_stores)) :
           /\ get_store_profile(s).type = "bulk"
           /\ \E e \in Range(ListedItems(shopping_list)) :
                  FLess(QuantityOf(e), FromNat(3))

\* ---------------------------------------------------------------------
\* More claims about the routing.

\* The store receives the entry: no selected store scores higher for it
\* and every store selected before scores less.
Receives(store, entry, sel) ==
    \A j \in 1..Len(sel) :
        /\ StoreScore(sel[j], entry) <= StoreScore(store, entry)
        /\ j < PlaceOf(store, sel) => StoreScore(sel[j], entry) < StoreScore(store, entry)

\* C15: the result of a routing over two or more stores holds a bucket for
\* a selected store exactly when that store received an ingredient, and
\* the items of every bucket stand in alphabetical order of their names.
C15_BucketsOfReceiversAlphabetical ==
    RoutedOverSeveral =>
        LET sel == normalized_stores(selected_stores)
        IN /\ \A s \in Range(sel) :
                  (\E b \in 1..Len(routed.stores) : routed.stores[b].id = s)
                  <=> (\E e \in Range(all_ingredients(shopping_list)) : Receives(s, e, sel))
           /\ \A b \in 1..Len(routed.stores) :
                  LET items == routed.stores[b].data.items
                  IN /\ Len(items) > 0
                     /\ \A i \in 1..(Len(items) - 1) :
                            ~TextLess(Lower(items[i + 1].item), Lower(items[i].item))

\* A routing has left a selected store without a bucket and filed two
\* ingredients, one with a capital initial, under another.
C15_Witness ==
    /\ RoutedOverSeveral
    /\ \E s \in Range(normalized_stores(selected_stores)) :
           \A b \in 1..Len(routed.stores) : routed.stores[b].id # s
    /\ \E b \in 1..Len(routed.stores) :
           /\ Len(routed.stores[b].data.items) = 2
           /\ \E i \in 1..2 :
                  routed.stores[b].data.items[i].item
                      # Lower(routed.stores[b].data.items[i].item)

\* The ids of the profile table.
ProfileIds == {store_profiles[k].id : k \in 1..Len(store_profiles)}

\* A store id without case, underscores and blanks.
LooseId(store_id) == Replace(Replace(Lower(store_id), "_", ""), " ", "")

\* The id is one of the profile table, up to case, underscores and blanks.
MatchesProfileTable(store_id) == \E id \in ProfileIds : LooseId(id) = LooseId(store_id)

\* The categories categorize_ingredient can give.
Categories ==
    {ingredient_categories[k].category : k \in 1..Len(ingredient_categories)} \cup {"general"}

\* The store has the default profile, scores 50 for every listed
\* ingredient, and whatever it is first to score highest for is in its
\* bucket.
TreatedAsDefault(s) ==
    LET sel == normalized_stores(selected_stores)
        profile == get_store_profile(s)
    IN /\ profile.type = "convenience"
       /\ profile.min_quantity = 0
       /\ profile.good_for \cap Categories = {}
       /\ profile.avoid \cap Categories = {}
       /\ \A e \in Range(ListedItems(shopping_list)) :
              /\ StoreScore(s, e) = 50
              /\ Receives(s, e, sel) => [store |-> s, entry |-> e] \in Placed

\* C16 as stated: every selected store whose id is not an id of the profile
\* table is scored with the default profile (type convenience, minimum
\* quantity 0, no category in good_for or avoid), scores exactly 50 for
\* every ingredient, and receives ingredients like any other store.
C16_UnlistedStoreScoresBase ==
    RoutedOverSeveral =>
        \A s \in Range(normalized_stores(selected_stores)) :
            s \notin ProfileIds => TreatedAsDefault(s)

\* C16, amended: every selected store whose id matches no id of the profile
\* table, neither exactly nor once case, underscores and blanks are set
\* aside, is scored with the default profile, scores exactly 50 for every
\* ingredient, and receives ingredients like any other store.
C16_UnmatchedStoreScoresBase ==
    RoutedOverSeveral =>
        \A s \in Range(normalized_stores(selected_stores)) :
            ~MatchesProfileTable(s) => TreatedAsDefault(s)

\* A store that matches no profile has received an ingredient.
C16_Witness ==
    /\ RoutedOverSeveral
    /\ \E p \in Placed : ~MatchesProfileTable(p.store)

\* ---------------------------------------------------------------------
\* The aggregation of one recipe, line by line.

\* The most lines the recipe 'custom' holds.
MaxLines == 2

\* The ingredient lines the recipe 'custom' is written from: amounts that
\* are numbers, decimal texts, fractions well and badly formed, skip words
\* in every letter case, and names that differ in case and in blanks.
LinePool == {
    Ingredient("olive oil", IntV(2), "cup"),
    Ingredient("Olive Oil", FloatV(1, 2), "Cup"),
    Ingredient("olive  oil", IntV(1), "cup"),
    Ingredient(" olive oil", IntV(1), "cup "),
    Ingredient("salt", IntV(1), "tsp"),
    Ingredient("salt", StrV("To Taste"), "tsp"),
    Ingredient("Salt", StrV("PINCH"), ""),
    Ingredient("salt", StrV(""), "tsp"),
    Ingredient("chili", StrV("Optional"), "tsp"),
    Ingredient("chili", StrV("as Needed"), "tsp"),
    Ingredient("chili", StrV("VARIES"), "cup"),
    Ingredient("chili", StrV("Dash"), "cup"),
    Ingredient("mint", StrV("handful"), ""),
    Ingredient("mint", StrV("Sprinkle"), ""),
    Ingredient("mint", StrV("As Desired"), "cup"),
    Ingredient("salt", FloatV(5, 100), "tsp"),
    Ingredient("salt", StrV("0.09"), "cup"),
    Ingredient("salt", StrV("1/16"), "tsp"),
    Ingredient("water", IntV(0), "cup"),
    Ingredient("flour", StrV("1/2"), "cup"),
    Ingredient("flour", StrV("1 1/2"), "cup"),
    Ingredient("flour", StrV("2 2/3"), "cup"),
    Ingredient("flour", StrV("1/0"), "cup"),
    Ingredient("flour", StrV("a/2"), "cup"),
    Ingredient("flour", StrV("1/2/3"), "cup"),
    Ingredient("flour", StrV("1 /2"), "cup"),
    Ingredient("flour", StrV("half"), "cup") }

\* The recipes 'custom' can be: every sequence of one to MaxLines lines.
LineRecipes == UNION {[1..n -> LinePool] : n \in 1..MaxLines}

\* The meal slots a plan gives the recipe 'custom'.
CustomSlots == {[recipe |-> "custom", servings |-> IntV(1)],
                [recipe |-> "custom", servings |-> IntV(3)]}

\* LineAdds for the lines of the pool and the slots of 'custom'.
LineAddsTable ==
    [p \in LinePool \X CustomSlots |-> LineAdds(p[1], p[2].recipe, p[2].servings)]

\* What a plan of slots of 'custom' adds, slot by slot and line by line.
CustomAdds(ingredients, plan) ==
    LET meals == PlannedMeals(plan)
        slot(s) == LET line(k) == known_adds[<<ingredients[k], meals[s]>>]
                   IN Concat(line, 1, Len(ingredients))
    IN Concat(slot, 1, Len(meals))

\* _aggregate_ingredients on a plan of slots of 'custom'.
aggregate_custom(ingredients, plan) ==
    LET adds == CustomAdds(ingredients, plan)
    IN TotalsAfter(adds, Len(adds))

InitLines ==
    /\ meal_plan = EmptyPlan
    /\ ingredient_totals = NotAggregated
    /\ known_adds = LineAddsTable
    /\ known_entries = <<>>
    /\ custom_ingredients \in LineRecipes
    /\ list_item = NoItem
    /\ cleaned = NotCleaned
    /\ RouteIdle
    /\ PriceIdle

\* The planner plans 'custom' for one meal.
PlanCustom ==
    /\ meal_plan = EmptyPlan
    /\ \E meal_info \in CustomSlots :
           meal_plan' = [meal_plan EXCEPT !.days = << [meals |-> <<meal_info>>] >>]
    /\ UNCHANGED <<ingredient_totals, known_adds, known_entries, custom_ingredients, list_item, cleaned, routeVars, priceVars>>

\* The generator aggregates the plan.
AggregateCustom ==
    /\ meal_plan # EmptyPlan
    /\ ingredient_totals = NotAggregated
    /\ ingredient_totals' = Returned(aggregate_custom(custom_ingredients, meal_plan))
    /\ UNCHANGED <<meal_plan, known_adds, known_entries, custom_ingredients, list_item, cleaned, routeVars, priceVars>>

NextLines == PlanCustom \/ AggregateCustom

SpecLines == InitLines /\ [][NextLines]_vars


\* ---------------------------------------------------------------------
\* Claims about the lines of a recipe.

\* The words that stand for no amount.
SkipTokens == {"varies", "optional", "", "to taste", "as needed", "pinch", "dash",
               "handful", "sprinkle", "as desired"}

\* The well-formed amount texts of the pool and the numbers w + n / d they
\* stand for.
AmountTexts == {<<"0.09", 0, 9, 100>>, <<"1/16", 0, 1, 16>>, <<"1/2", 0, 1, 2>>,
                <<"1 1/2", 1, 1, 2>>, <<"2 2/3", 2, 2, 3>>}

\* The amount resolves to a number below 0.1.
BelowThreshold(amount) ==
    \/ amount.t = "int" /\ amount.n < 1
    \/ amount.t = "float" /\ amount.n * 10 < amount.d
    \/ amount.t = "str" /\ \E a \in AmountTexts :
           a[1] = amount.s /\ (a[2] * a[4] + a[3]) * 10 < a[4]

\* The line's amount is a skip token, in any letter case, or resolves to a
\* number below 0.1.
ClaimedSkipped(ing) ==
    \/ ing.amount.t = "str" /\ Lower(ing.amount.s) \in SkipTokens
    \/ BelowThreshold(ing.amount)

\* A sequence without its k-th element.
Without(s, k) == SubSeq(s, 1, k - 1) \o SubSeq(s, k + 1, Len(s))

\* C17: a line whose amount is a skip token, in any letter case, or whose
\* resolved amount is below 0.1 contributes nothing, whatever its unit and
\* the slot's servings: the aggregate is that of the recipe without the
\* line.
C17_SkippedLineContributesNothing ==
    AggregationReturned =>
        \A k \in 1..Len(custom_ingredients) :
            ClaimedSkipped(custom_ingredients[k]) =>
                ingredient_totals.buckets
                    = aggregate_custom(Without(custom_ingredients, k), meal_plan)

\* At servings 3 a line of 0.05 tsp of salt, 0.15 once scaled, stands
\* beside a line that counts, and the aggregate holds that one alone.
C17_Witness ==
    /\ AggregationReturned
    /\ PlannedMeals(meal_plan) = << [recipe |-> "custom", servings |-> IntV(3)] >>
    /\ custom_ingredients = << Ingredient("salt", IntV(1), "tsp"),
                               Ingredient("salt", FloatV(5, 100), "tsp") >>
    /\ Len(ingredient_totals.buckets) = 1
    /\ ingredient_totals.buckets[1].amount = IntN(3)

\* The float nearest to whole + numerator / denominator of a well-formed
\* amount text.
ClaimedNumber(a) == RatioFloat(a[2] * a[4] + a[3], a[4])

\* What a line adds when a text amount stands for whole + numerator /
\* denominator if it is well formed and is skipped if it is not; an amount
\* that is no text adds what the aggregation makes of it.
ClaimedLineAdds(ing, meal_info) ==
    IF ing.amount.t # "str" THEN LineAdds(ing, meal_info.recipe, meal_info.servings)
    ELSE IF \E a \in AmountTexts : a[1] = ing.amount.s
    THEN LET a == CHOOSE a \in AmountTexts : a[1] = ing.amount.s
         IN LineAddsOf(ing, meal_info.recipe,
                       [skip |-> FALSE, isnum |-> TRUE, v |-> FloatN(ClaimedNumber(a))],
                       ClaimedFactor(meal_info))
    ELSE <<>>

\* ClaimedLineAdds for the lines of the pool and the slots of 'custom'.
ClaimedAdds == [p \in LinePool \X CustomSlots |-> ClaimedLineAdds(p[1], p[2])]

\* C18: an amount text with '/' counts as numerator / denominator, with a
\* blank as whole + numerator / denominator; a malformed fraction and any
\* other text that is no number is skipped: the aggregation returns, with
\* the totals of the well-formed lines.
C18_FractionsParsedOrSkipped ==
    AggregationReturned =>
        LET meals == PlannedMeals(meal_plan)
            slot(s) == LET line(k) == ClaimedAdds[<<custom_ingredients[k], meals[s]>>]
                       IN Concat(line, 1, Len(custom_ingredients))
            adds == Concat(slot, 1, Len(meals))
        IN ingredient_totals.buckets = TotalsAfter(adds, Len(adds))

\* "1 1/2" cup and "1/0" cup of flour: a total of 1.5.
C18_Witness ==
    /\ AggregationReturned
    /\ PlannedMeals(meal_plan) = << [recipe |-> "custom", servings |-> IntV(1)] >>
    /\ custom_ingredients = << Ingredient("flour", StrV("1 1/2"), "cup"),
                               Ingredient("flour", StrV("1/0"), "cup") >>
    /\ Len(ingredient_totals.buckets) = 1
    /\ ingredient_totals.buckets[1].amount = FloatN(RatioFloat(3, 2))

\* The line's quantity is Skip: a skip token, a number below 0.1, or a
\* text that is no well-formed amount.
QuantityIsSkip(ing) ==
    \/ ClaimedSkipped(ing)
    \/ ing.amount.t = "str" /\ ~\E a \in AmountTexts : a[1] = ing.amount.s

\* The aggregation key of a line.
LineKey(ing) == Lower(ing.item \o "_" \o ing.unit)

\* C19: a line whose quantity is Skip adds no amount, but its key has a
\* bucket all the same, naming the recipe; where no other line shares the
\* key, the bucket holds the line's item and a total of 0.
C19_SkippedLineStillRegistered ==
    AggregationReturned =>
        \A k \in 1..Len(custom_ingredients) :
            LET ing == custom_ingredients[k]
                buckets == ingredient_totals.buckets
            IN QuantityIsSkip(ing) =>
                   \E b \in 1..Len(buckets) :
                       /\ buckets[b].key = LineKey(ing)
                       /\ "custom" \in buckets[b].recipes
                       /\ (\A j \in 1..Len(custom_ingredients) :
                               j # k => LineKey(custom_ingredients[j]) # LineKey(ing))
                          => /\ buckets[b].items = << ing.item >>
                             /\ buckets[b].amount = IntN(0)

\* A recipe with a line whose quantity is Skip and whose key no other line
\* has has been aggregated.
C19_Witness ==
    /\ AggregationReturned
    /\ \E k \in 1..Len(custom_ingredients) :
           /\ QuantityIsSkip(custom_ingredients[k])
           /\ \A j \in 1..Len(custom_ingredients) :
                  j # k => LineKey(custom_ingredients[j]) # LineKey(custom_ingredients[k])

\* A text with the blanks around it dropped and every run of blanks within
\* it made one blank.
Collapsed(s) ==
    LET f(i) == IF Char(s, i) = " " /\ (i = 1 \/ Char(s, i - 1) = " ") THEN ""
                ELSE Char(s, i)
    IN Strip(JoinText(f, 1, Len(s)))

\* The item and unit of a line without case and without the blanks that
\* carry no meaning.
NormalizedKey(ing) == <<Collapsed(Lower(ing.item)), Collapsed(Lower(ing.unit))>>

\* The lines of the recipe that count, by place.
CountedLines == {k \in 1..Len(custom_ingredients) : ~QuantityIsSkip(custom_ingredients[k])}

\* The counted lines that share the normalized key of line k.
SameIngredient(k) ==
    {j \in CountedLines :
         NormalizedKey(custom_ingredients[j]) = NormalizedKey(custom_ingredients[k])}

\* C20: lines whose item and unit differ only in letter case or in blanks
\* around or repeated within them accumulate into one bucket, and the
\* bucket shows the item text of the first of them.
C20_KeyIgnoresCaseAndBlanks ==
    AggregationReturned =>
        LET buckets == ingredient_totals.buckets
        IN /\ Len(buckets)
                  = Cardinality({NormalizedKey(custom_ingredients[k]) : k \in CountedLines})
           /\ \A k \in CountedLines :
                  LET first == CHOOSE i \in SameIngredient(k) :
                                   \A j \in SameIngredient(k) : i <= j
                  IN \E b \in 1..Len(buckets) :
                         /\ buckets[b].items[1] = custom_ingredients[first].item
                         /\ Len(buckets[b].items) = Cardinality(SameIngredient(k))

\* Two lines that count and whose item texts differ, in case or in blanks
\* only, have been aggregated.
C20_Witness ==
    /\ AggregationReturned
    /\ \E k \in CountedLines : \E j \in SameIngredient(k) :
           custom_ingredients[j].item # custom_ingredients[k].item

\* ---------------------------------------------------------------------
\* More claims about the aggregation of a plan.

\* The names of the recipe catalog.
CatalogNames == {recipes[r].name : r \in 1..Len(recipes)}

\* The plan without the slots whose recipe the catalog does not hold.
WithoutUnresolvable(plan) ==
    [plan EXCEPT !.days =
        [d \in 1..Len(plan.days) |->
            LET meals == plan.days[d].meals
                resolvable(k) == meals[k].recipe \in CatalogNames
            IN [meals |-> Keep(meals, resolvable)]]]

\* C21: a slot whose recipe is not in the catalog adds to no bucket and
\* the aggregation returns: the buckets are those of the plan without such
\* slots, and none names the recipe.
C21_UnresolvableSlotSkipped ==
    AggregationReturned =>
        /\ ingredient_totals.buckets = aggregate_ingredients(WithoutUnresolvable(meal_plan))
        /\ \A b \in 1..Len(ingredient_totals.buckets) :
               ingredient_totals.buckets[b].recipes \subseteq CatalogNames

\* A plan with a slot of a recipe outside the catalog and a slot of
\* rice_bowl has been aggregated.
C21_Witness ==
    /\ AggregationReturned
    /\ \E k \in 1..Len(PlannedMeals(meal_plan)) :
           PlannedMeals(meal_plan)[k].recipe \notin CatalogNames
    /\ \E b \in 1..Len(ingredient_totals.buckets) :
           "rice_bowl" \in ingredient_totals.buckets[b].recipes

\* ---------------------------------------------------------------------
\* The amounts and units generate_shopping_list shows.

\* The integer nearest to a float h >= 0, a tie going to the even one.
NearestEven(h) ==
    LET k == 0 - h.e
        n == Len(h.m)
        whole == IF k >= n THEN 0 ELSE BitsNat(SubSeq(h.m, 1, n - k))
        half == IF k > n THEN 0 ELSE h.m[n - k + 1]
        up == half = 1 /\ (k > 1 \/ whole % 2 = 1)
    IN IF IsZero(h) THEN 0
       ELSE IF h.e >= 0 THEN BitsNat(h.m) * 2^h.e
       ELSE IF up THEN whole + 1 ELSE whole

\* The integer nearest to x * scale, computed on the exact product.
RoundedUnits(x, scale) == NearestEven(ExactMul(x, FromNat(scale)))

\* round(amount, ndigits) for ndigits 1 or 2: an int is returned as it is,
\* a float becomes the float nearest to the rounded decimal.
round(amount, ndigits) ==
    IF amount.isint THEN amount
    ELSE FloatN(RatioFloat(RoundedUnits(amount.f, 10^ndigits), 10^ndigits))

\* The decimal digits of a natural number.
RECURSIVE NatText(_)
NatText(n) ==
    IF n < 10 THEN Char(Digits, n + 1) ELSE NatText(n \div 10) \o Char(Digits, (n % 10) + 1)

\* The text of k / 10^ndigits with ndigits decimals.
FixedText(k, ndigits) ==
    NatText(k \div (10^ndigits)) \o "."
    \o (IF ndigits = 2 /\ k % 100 < 10 THEN "0" ELSE "") \o NatText(k % (10^ndigits))

\* f"{x:.1f}" and f"{x:.2f}" for a float x >= 0.
format_spec(x, ndigits) == FixedText(RoundedUnits(x, 10^ndigits), ndigits)

\* amount >= n for an int or a float.
AtLeast(amount, n) == ~FLess(amount.f, FromNat(n))

\* A quotient rounded to one decimal, with the singular unit for exactly 1.
Rounded1(q, singular, plural) ==
    [amount |-> round(FloatN(q), 1), unit |-> IF q = FromNat(1) THEN singular ELSE plural]

\* amount / n rounded to one decimal, with the singular unit for exactly 1.
Converted(amount, n, singular, plural) ==
    Rounded1(FDiv(amount.f, FromNat(n)), singular, plural)

\* A conversion that reads the unit without regard to letter case.
ConvertUnitsAnyCase(amount, unit) ==
    IF Lower(unit) \in {"tsp", "teaspoon", "teaspoons"} /\ AtLeast(amount, 48)
    THEN Converted(amount, 48, "cup", "cups")
    ELSE IF Lower(unit) \in {"tsp", "teaspoon", "teaspoons"} /\ AtLeast(amount, 3)
    THEN Converted(amount, 3, "tbsp", "tbsp")
    ELSE IF Lower(unit) \in {"tbsp", "tablespoon", "tablespoons"} /\ AtLeast(amount, 16)
    THEN Converted(amount, 16, "cup", "cups")
    ELSE IF Lower(unit) \in {"oz", "ounce", "ounces"} /\ AtLeast(amount, 16)
    THEN Converted(amount, 16, "lb", "lbs")
    ELSE [amount |-> round(amount, IF AtLeast(amount, 1) THEN 1 ELSE 2), unit |-> unit]

\* ShoppingListGenerator._convert_units.
convert_units(amount, unit) ==
    IF unit \in {"tsp", "teaspoon", "teaspoons"} /\ AtLeast(amount, 48)
    THEN Converted(amount, 48, "cup", "cups")
    ELSE IF unit \in {"tsp", "teaspoon", "teaspoons"} /\ AtLeast(amount, 3)
    THEN Converted(amount, 3, "tbsp", "tbsp")
    ELSE IF unit \in {"tbsp", "tablespoon", "tablespoons"} /\ AtLeast(amount, 16)
    THEN Converted(amount, 16, "cup", "cups")
    ELSE IF unit \in {"oz", "ounce", "ounces"} /\ AtLeast(amount, 16)
    THEN Converted(amount, 16, "lb", "lbs")
    ELSE [amount |-> round(amount, IF AtLeast(amount, 1) THEN 1 ELSE 2), unit |-> unit]

\* The amount generate_shopping_list shows: an int as it is, a float with
\* two decimals below 1 and one from 1 on.
shown_amount(amount) ==
    IF amount.isint THEN IntV(amount.n)
    ELSE StrV(format_spec(amount.f, IF AtLeast(amount, 1) THEN 1 ELSE 2))

\* The entry of a bucket whose conversion is c.
EntryOf(ing_data, c) ==
    Entry(ing_data.items[1],
          shown_amount(c.amount), c.unit)

\* The entry generate_shopping_list makes of a bucket: the first item text,
\* the converted amount and the converted unit.
shown_entry(ing_data) == EntryOf(ing_data, convert_units(ing_data.amount, ing_data.unit))

\* The totals of the buckets: ints, floats that are exact in binary, and,
\* below every threshold, floats that are not.
TotalPool == {IntN(0), IntN(1), IntN(2), IntN(3), IntN(15), IntN(16), IntN(20), IntN(47),
              IntN(48), IntN(50), IntN(60), IntN(96),
              FloatN(RatioFloat(1, 8)), FloatN(RatioFloat(1, 2)), FloatN(RatioFloat(9, 4)),
              FloatN(RatioFloat(5, 2)), FloatN(RatioFloat(63, 4)), FloatN(RatioFloat(95, 2)),
              FloatN(RatioFloat(101, 2)), FloatN(RatioFloat(335, 1000)),
              FloatN(RatioFloat(996, 1000)), FloatN(RatioFloat(145, 100))}

\* The units of the buckets.
UnitPool == {"tsp", "teaspoons", "tbsp", "tablespoon", "oz", "cup", "Tsp", "g", ""}

\* A bucket of ingredient_totals for salt.
Bucket(amount, unit) ==
    [key |-> Lower("Salt" \o "_" \o unit), amount |-> amount, unit |-> unit,
     items |-> <<"Salt">>, recipes |-> {"custom"}]

\* The list after the first n buckets are filed, bucket k under stores[k].
RECURSIVE ListAfter(_, _, _)
ListAfter(buckets, stores, n) ==
    IF n = 0 THEN EmptyList
    ELSE WithEntry(ListAfter(buckets, stores, n - 1), stores[n], known_entries[buckets[n]])

\* shown_entry for every bucket of the model.
EntryTable == [b \in {Bucket(p[1], p[2]) : p \in TotalPool \X UnitPool} |-> shown_entry(b)]

InitDisplay ==
    /\ meal_plan = EmptyPlan
    /\ \E amount \in TotalPool, unit \in UnitPool :
           ingredient_totals = Returned(<< Bucket(amount, unit) >>)
    /\ known_adds = <<>>
    /\ known_entries = EntryTable
    /\ custom_ingredients = <<>>
    /\ list_item = NoItem
    /\ cleaned = NotCleaned
    /\ RouteIdle
    /\ PriceIdle

\* generate_shopping_list files every bucket under the store
\* _find_store_for_ingredient gives its item.
GenerateShoppingList ==
    /\ shopping_list = EmptyList
    /\ \E stores \in [1..Len(ingredient_totals.buckets) -> Range(ListedStores)] :
           shopping_list' = ListAfter(ingredient_totals.buckets, stores,
                                      Len(ingredient_totals.buckets))
    /\ UNCHANGED <<selected_stores, routed, known_scores, aggVars, priceVars>>

NextDisplay == GenerateShoppingList

SpecDisplay == InitDisplay /\ [][NextDisplay]_vars

(***************************************************************************)
(* ingredient_cleaner.py: IngredientCleaner                                *)
(***************************************************************************)
\* A regular expression of self.redundancy_patterns: \b, a number (\d+, or
\* [2-9]|[1-9]\d+ when strict), the words, each after \s+, and \b or \s+ at
\* the tail; the replacement is the number, a blank and the text to.
Pattern(strict, words, tail, to) ==
    [strict |-> strict, words |-> words, tail |-> tail, to |-> to]

\* self.redundancy_patterns
redundancy_patterns == <<
    Pattern(FALSE, <<"white", "egg", "white">>, "b", "egg whites"),
    Pattern(FALSE, <<"whites", "egg", "whites">>, "b", "egg whites"),
    Pattern(FALSE, <<"dates", "medjool", "dates">>, "b", "medjool dates"),
    Pattern(FALSE, <<"dates", "dates">>, "b", "dates"),
    Pattern(FALSE, <<"scoop">>, "s", "scoops "),
    Pattern(FALSE, <<"mediums">>, "s", "medium "),
    Pattern(FALSE, <<"wholes">>, "s", "whole "),
    Pattern(FALSE, <<"cloves">>, "s", "cloves "),
    Pattern(FALSE, <<"lemons", "lemon">>, "b", "lemons"),
    Pattern(FALSE, <<"lemon", "lemons">>, "b", "lemons"),
    Pattern(TRUE, <<"medium", "onion">>, "b", "medium onions"),
    Pattern(TRUE, <<"medium", "apple">>, "b", "medium apples"),
    Pattern(TRUE, <<"medium", "lemon">>, "b", "medium lemons") >>

\* self.plural_units
plural_units == <<
    <<"slice", "slices">>, <<"piece", "pieces">>, <<"scoop", "scoops">>,
    <<"clove", "cloves">>, <<"leaf", "leaves">>, <<"sprig", "sprigs">>,
    <<"stalk", "stalks">>, <<"strip", "strips">>, <<"medium", "medium">>,
    <<"whole", "whole">> >>

\* The character at place i of t is a word character (\w).
WordAt(t, i) ==
    /\ i >= 1
    /\ i <= Len(t)
    /\ IndexIn(Char(t, i), Digits) > 0 \/ IsLetter(Char(t, i)) \/ Char(t, i) = "_"

\* \b before place i of t.
Boundary(t, i) == WordAt(t, i - 1) # WordAt(t, i)

\* The place after the longest run, from place i of t, of characters of chars.
RECURSIVE RunEnd(_, _, _)
RunEnd(t, i, chars) ==
    IF i <= Len(t) /\ IndexIn(Char(t, i), chars) > 0 THEN RunEnd(t, i + 1, chars) ELSE i

\* The place after \s+word for the words from the k-th on, matched from
\* place j of t without regard to letter case; 0 when they do not match.
RECURSIVE WordsEnd(_, _, _, _)
WordsEnd(t, j, words, k) ==
    IF k > Len(words) THEN j
    ELSE LET b == RunEnd(t, j, " ")
             e == b + Len(words[k])
         IN IF b > j /\ e - 1 <= Len(t) /\ Lower(SubSeq(t, b, e - 1)) = words[k]
            THEN WordsEnd(t, e, words, k + 1)
            ELSE 0

\* The number of a pattern matches the digits from place i up to place d.
NumberMatches(t, i, d, strict) ==
    /\ d > i
    /\ Boundary(t, i)
    /\ strict => \/ d - i = 1 /\ IndexIn(Char(t, i), "23456789") > 0
                 \/ d - i >= 2 /\ Char(t, i) # "0"

\* The place after the tail of a pattern, the words ending before place w.
TailEnd(t, w, tail) ==
    IF w = 0 THEN 0
    ELSE IF tail = "b" THEN (IF Boundary(t, w) THEN w ELSE 0)
    ELSE IF RunEnd(t, w, " ") > w THEN RunEnd(t, w, " ") ELSE 0

\* The place after the match of pattern p at place i of t, the digits ending
\* before place d; 0 when p does not match there.
MatchFrom(t, i, d, p) ==
    IF NumberMatches(t, i, d, p.strict) THEN TailEnd(t, WordsEnd(t, d, p.words, 1), p.tail)
    ELSE 0

MatchEnd(t, i, p) == MatchFrom(t, i, RunEnd(t, i, Digits), p)

\* re.sub(pattern, replacement, t, flags=re.IGNORECASE) from place i on.
RECURSIVE SubFrom(_, _, _)
SubStep(t, i, p, e) ==
    IF e = 0 THEN Char(t, i) \o SubFrom(t, i + 1, p)
    ELSE SubSeq(t, i, RunEnd(t, i, Digits) - 1) \o " " \o p.to \o SubFrom(t, e, p)

SubFrom(t, i, p) == IF i > Len(t) THEN "" ELSE SubStep(t, i, p, MatchEnd(t, i, p))

\* full_text after the first n patterns are applied, one after the other.
RECURSIVE AfterPatterns(_, _)
AfterPatterns(full_text, n) ==
    IF n = 0 THEN full_text
    ELSE SubFrom(AfterPatterns(full_text, n - 1), 1, redundancy_patterns[n])

\* The text from the place after a leading amount that ends before place c.
AfterBlanks(t, a, c) ==
    IF a > 1 /\ RunEnd(t, c, " ") > c THEN SubSeq(t, RunEnd(t, c, " "), Len(t)) ELSE t

AfterPoint(t, a, b) == AfterBlanks(t, a, RunEnd(t, b, Digits))

AfterDigits(t, a) == AfterPoint(t, a, IF a <= Len(t) /\ Char(t, a) = "." THEN a + 1 ELSE a)

\* re.sub(r'^\d+\.?\d*\s+', '', full_text)
WithoutAmount(t) == AfterDigits(t, RunEnd(t, 1, Digits))

\* re.sub(r'\s+', ' ', cleaned)
CollapseBlanks(s) ==
    LET f(i) == IF Char(s, i) = " " /\ i > 1 /\ Char(s, i - 1) = " " THEN "" ELSE Char(s, i)
    IN JoinText(f, 1, Len(s))

\* str.endswith
EndsWith(s, suffix) ==
    Len(s) >= Len(suffix) /\ SubSeq(s, Len(s) - Len(suffix) + 1, Len(s)) = suffix

\* str.replace(old, new), from place i on.
RECURSIVE ReplaceFrom(_, _, _, _)
ReplaceFrom(s, i, old, new) ==
    IF i > Len(s) THEN ""
    ELSE IF i + Len(old) - 1 <= Len(s) /\ SubSeq(s, i, i + Len(old) - 1) = old
    THEN new \o ReplaceFrom(s, i + Len(old), old, new)
    ELSE Char(s, i) \o ReplaceFrom(s, i + 1, old, new)

\* The amount an entry holds, as clean_shopping_list_item reads it: a text
\* is converted with float(), 0 when that raises ValueError.
CleanerAmount(v) ==
    IF v.t = "int" THEN IntN(v.n)
    ELSE IF v.t = "str" THEN (IF ParseFloat(v.s).ok THEN FloatN(ParseFloat(v.s).v) ELSE IntN(0))
    ELSE FloatN(NumberOf(v))

\* The text of k hundredths as repr writes it: without trailing zeros, one
\* decimal at the least.
HundredthsText(k) ==
    NatText(k \div 100) \o "."
    \o (IF k % 10 = 0 THEN NatText((k % 100) \div 10)
        ELSE (IF k % 100 < 10 THEN "0" ELSE "") \o NatText(k % 100))

\* f"{amount}": str of an int, repr of a float (of a float that is the
\* nearest to a number of hundredths, as the floats of the model are).
amount_text(amount) ==
    IF amount.isint THEN NatText(amount.n) ELSE HundredthsText(RoundedUnits(amount.f, 100))

\* amount > 1
MoreThanOne(amount) == FLess(FromNat(1), amount.f)

\* The singular/plural handling at the end of clean_ingredient_name.
Pluralized(cleaned_name, amount) ==
    IF MoreThanOne(amount) /\ ~EndsWith(cleaned_name, "s") /\ ~EndsWith(cleaned_name, "ch")
    THEN IF Contains("egg white", cleaned_name) /\ ~Contains("egg whites", cleaned_name)
         THEN ReplaceFrom(cleaned_name, 1, "egg white", "egg whites")
         ELSE IF cleaned_name \in {"onion", "apple", "lemon", "banana", "potato"}
         THEN cleaned_name \o "s"
         ELSE cleaned_name
    ELSE cleaned_name

\* IngredientCleaner.clean_ingredient_name
clean_ingredient_name(item, amount) ==
    IF item = "" THEN item
    ELSE Strip(Pluralized(
             CollapseBlanks(Strip(WithoutAmount(
                 AfterPatterns(amount_text(amount) \o " " \o Strip(item),
                               Len(redundancy_patterns))))),
             amount))

\* The plural of a lower-cased unit that is not plural already.
PluralOf(unit, unit_lower) ==
    LET known(p) == p[1] = unit_lower
        k == FirstIndex(plural_units, known)
    IN IF k # 0 THEN plural_units[k][2]
       ELSE IF EndsWith(unit_lower, "y")
       THEN SubSeq(unit_lower, 1, Len(unit_lower) - 1) \o "ies"
       ELSE IF unit_lower \in {"tsp", "tbsp", "oz", "lb", "cup"} THEN unit
       ELSE unit \o "s"

\* IngredientCleaner.pluralize_unit
pluralize_unit(unit, amount) ==
    IF unit = "" \/ ~MoreThanOne(amount) THEN unit
    ELSE IF EndsWith(Strip(Lower(unit)), "s") THEN unit
    ELSE PluralOf(unit, Strip(Lower(unit)))

\* The amount normalize_ingredient_display shows: int(amount) when the
\* amount is whole, else the amount rounded to 2 decimals below 1 and to 1
\* decimal from 1 on.
formatted_amount(amount) ==
    IF amount.isint THEN amount
    ELSE IF IsZero(amount.f) THEN IntN(0)
    ELSE IF amount.f.e >= 0 THEN IntN(BitsNat(amount.f.m) * 2^amount.f.e)
    ELSE round(amount, IF AtLeast(amount, 1) THEN 1 ELSE 2)

\* IngredientCleaner.normalize_ingredient_display, without 'display'.
normalize_ingredient_display(item, amount, unit) ==
    [item |-> clean_ingredient_name(item, amount),
     amount |-> formatted_amount(amount),
     unit |-> pluralize_unit(unit, amount)]

\* IngredientCleaner.clean_shopping_list_item
clean_shopping_list_item(ingredient) ==
    LET c == normalize_ingredient_display(Get(ingredient, "item", ""),
                                          CleanerAmount(Get(ingredient, "amount", IntV(0))),
                                          Get(ingredient, "unit", ""))
    IN [done |-> TRUE, item |-> c.item, amount |-> c.amount, unit |-> c.unit]

\* The entries the cleaner is called with: the amounts as the shopping list
\* holds them, ints and formatted floats, and a text that is no number.
DirtyItems == {"medium onion", "medium apple", "medium lemon", "Medium Onion", "onion",
               "banana", "egg white", "scoop protein powder", "spinach",
               " lemons  lemon", "mediums apples", "dates medjool dates", ""}

DirtyAmounts == {IntV(0), IntV(1), IntV(2), IntV(12), StrV("0.50"), StrV("0.25"),
                 StrV("0.10"), StrV("0.02"), StrV("1.0"), StrV("1.5"), StrV("2.0"),
                 StrV("a few")}

DirtyUnits == {"", "clove", "cup", "berry", "Slice", "cloves", "bunch"}

DirtyPool == {Entry(p[1], p[2], p[3]) : p \in DirtyItems \X DirtyAmounts \X DirtyUnits}

\* clean_shopping_list_item for every entry of the model.
CleanTable == [e \in DirtyPool |-> clean_shopping_list_item(e)]

InitClean ==
    /\ meal_plan = EmptyPlan
    /\ ingredient_totals = NotAggregated
    /\ known_adds = <<>>
    /\ known_entries = CleanTable
    /\ custom_ingredients = <<>>
    /\ list_item \in DirtyPool
    /\ cleaned = NotCleaned
    /\ RouteIdle
    /\ PriceIdle

\* clean_shopping_list_item(ingredient) returns.
CleanShoppingListItem ==
    /\ cleaned = NotCleaned
    /\ cleaned' = known_entries[list_item]
    /\ UNCHANGED <<meal_plan, ingredient_totals, known_adds, known_entries,
                   custom_ingredients, list_item, routeVars, priceVars>>

NextClean == CleanShoppingListItem

SpecClean == InitClean /\ [][NextClean]_vars

\* ---------------------------------------------------------------------
\* Claims about the displayed amounts.

\* generate_shopping_list has returned the list of the one bucket.
Listed == Len(shopping_list.stores) > 0

\* The bucket and the entry made of it.
TheBucket == ingredient_totals.buckets[1]

TheEntry == shopping_list.stores[1].data.items[1]

\* The hundredths a displayed amount stands for: an int, or a text of
\* digits with one or two decimals.
Hundredths(amount) ==
    IF amount.t = "int" THEN 100 * amount.n
    ELSE LET dot == IndexIn(".", amount.s)
             whole == SubSeq(amount.s, 1, dot - 1)
             frac == SubSeq(amount.s, dot + 1, Len(amount.s))
         IN 100 * DigitsNat(whole) + (IF Len(frac) = 1 THEN 10 ELSE 1) * DigitsNat(frac)

\* k hundredths is a multiple of step hundredths and none is nearer to x.
NearestStep(k, x, step) ==
    LET h == ExactMul(x, FromNat(200))
    IN /\ k % step = 0
       /\ 2 * k - step <= 0 \/ ~FLess(h, FromNat(2 * k - step))
       /\ ~FLess(FromNat(2 * k + step), h)

Teaspoons == {"tsp", "teaspoon", "teaspoons"}

Tablespoons == {"tbsp", "tablespoon", "tablespoons"}

Ounces == {"oz", "ounce", "ounces"}

\* C22: the display conversion converts upward only, at fixed thresholds:
\* teaspoons are shown as tablespoons from 3 on and as cups from 48 on,
\* tablespoons as cups from 16 on, ounces as pounds from 16 on; below the
\* thresholds and for every other unit the unit is shown unchanged and the
\* amount rounded to 2 decimals when it is below 1, else to 1 decimal.
C22_ConvertsUpwardAtThresholds ==
    Listed =>
        LET unit == TheBucket.unit
            amount == TheBucket.amount
        IN IF unit \in Teaspoons /\ AtLeast(amount, 48) THEN TheEntry.unit \in {"cup", "cups"}
           ELSE IF unit \in Teaspoons /\ AtLeast(amount, 3) THEN TheEntry.unit = "tbsp"
           ELSE IF unit \in Tablespoons /\ AtLeast(amount, 16)
           THEN TheEntry.unit \in {"cup", "cups"}
           ELSE IF unit \in Ounces /\ AtLeast(amount, 16) THEN TheEntry.unit \in {"lb", "lbs"}
           ELSE /\ TheEntry.unit = unit
                /\ NearestStep(Hundredths(TheEntry.amount), amount.f,
                               IF AtLeast(amount, 1) THEN 10 ELSE 1)

\* 47.5 tsp, below the threshold of cups, are shown as 15.8 tbsp.
C22_Witness ==
    /\ Listed
    /\ TheBucket.unit = "tsp"
    /\ TheBucket.amount = FloatN(RatioFloat(95, 2))
    /\ TheEntry.unit = "tbsp"
    /\ TheEntry.amount = StrV("15.8")

\* 50.5 Tsp, a unit the conversion does not know, stay 50.5 Tsp.
C22_WitnessUnknownUnit ==
    /\ Listed
    /\ TheBucket.unit = "Tsp"
    /\ TheBucket.amount = FloatN(RatioFloat(101, 2))
    /\ TheEntry = Entry("Salt", StrV("50.5"), "Tsp")

\* C23: the amount shown after an upward conversion is the total divided
\* by the ratio of the units: a total of 60 tsp is shown as 1.25 cup and a
\* total of 20 oz as 1.3 lb.
C23_SixtyTeaspoonsAndTwentyOunces ==
    Listed =>
        /\ (TheBucket.unit = "tsp" /\ TheBucket.amount = IntN(60)) =>
               /\ TheEntry.amount = StrV("1.25")
               /\ TheEntry.unit \in {"cup", "cups"}
        /\ (TheBucket.unit = "oz" /\ TheBucket.amount = IntN(20)) =>
               /\ TheEntry.amount = StrV("1.3")
               /\ TheEntry.unit \in {"lb", "lbs"}

\* 60 tsp are shown as 1.2 cups.
C23_Witness ==
    /\ Listed
    /\ TheBucket.unit = "tsp"
    /\ TheBucket.amount = IntN(60)
    /\ TheEntry = Entry("Salt", StrV("1.2"), "cups")

\* 20 oz are shown as 1.2 lbs.
C23_WitnessOunces ==
    /\ Listed
    /\ TheBucket.unit = "oz"
    /\ TheBucket.amount = IntN(20)
    /\ TheEntry = Entry("Salt", StrV("1.2"), "lbs")

\* ---------------------------------------------------------------------
\* Claims about the categories and the routed list.

\* The categories in the order of the table.
CategoryOrder == <<"pantry_staples", "oils_and_liquids", "spices_and_seasonings",
                   "fresh_produce", "fresh_herbs", "bulk_proteins", "dairy_and_eggs",
                   "specialty_items", "ethnic_ingredients">>

\* A keyword of the category occurs in the lower-cased name.
HasKeywordOf(category, name) ==
    \E c \in Range(ingredient_categories) :
        /\ c.category = category
        /\ \E keyword \in Range(c.ingredients) : Contains(keyword, Lower(name))

\* C24: categorize_ingredient returns the first category, in the order
\* pantry_staples, oils_and_liquids, spices_and_seasonings, fresh_produce,
\* fresh_herbs, bulk_proteins, dairy_and_eggs, specialty_items,
\* ethnic_ingredients, that has a keyword occurring in the lower-cased
\* name, and 'general' when no category has one.
C24_FirstCategoryInTableOrder ==
    \A e \in Range(ListedItems(shopping_list)) :
        LET category == categorize_ingredient(e.item)
        IN IF \A i \in 1..Len(CategoryOrder) : ~HasKeywordOf(CategoryOrder[i], e.item)
           THEN category = "general"
           ELSE \E i \in 1..Len(CategoryOrder) :
                    /\ category = CategoryOrder[i]
                    /\ HasKeywordOf(CategoryOrder[i], e.item)
                    /\ \A j \in 1..(i - 1) : ~HasKeywordOf(CategoryOrder[j], e.item)

\* Rosemary, a keyword of spices_and_seasonings and of fresh_herbs, has been
\* scored and routed as a spice.
C24_Witness ==
    /\ RoutedOverSeveral
    /\ \E p \in Placed :
           /\ p.entry.item = "rosemary"
           /\ HasKeywordOf("fresh_herbs", p.entry.item)
           /\ categorize_ingredient(p.entry.item) = "spices_and_seasonings"

\* Saffron, which holds no keyword, has been scored and routed as general.
C24_WitnessGeneral ==
    /\ RoutedOverSeveral
    /\ \E p \in Placed :
           /\ p.entry.item = "saffron"
           /\ categorize_ingredient(p.entry.item) = "general"

\* ---------------------------------------------------------------------
\* Claims about the cleaner.

\* The amount of the entry the cleaner was called with is at most 1.
AtMostOne ==
    IF list_item.amount.t = "str" /\ ~ParseFloat(list_item.amount.s).ok THEN TRUE
    ELSE Hundredths(list_item.amount) <= 100

\* C25: the cleaner pluralizes only when the amount is greater than 1: for
\* every amount of at most 1, fractional amounts such as 0.5 included,
\* pluralize_unit returns the unit unchanged and clean_ingredient_name
\* leaves 'medium onion', 'medium apple' and 'medium lemon' singular.
C25_SingularUpToOne ==
    (cleaned # NotCleaned /\ AtMostOne) =>
        /\ cleaned.unit = list_item.unit
        /\ list_item.item \in {"medium onion", "medium apple", "medium lemon"} =>
               cleaned.item = list_item.item

\* Half a medium onion has come back as 'medium onions', its unit unchanged.
C25_Witness ==
    /\ cleaned # NotCleaned
    /\ list_item = Entry("medium onion", StrV("0.50"), "clove")
    /\ cleaned.item = "medium onions"
    /\ cleaned.unit = "clove"

\* One medium onion stays singular.
C25_WitnessOne ==
    /\ cleaned # NotCleaned
    /\ list_item = Entry("medium onion", IntV(1), "clove")
    /\ cleaned.item = "medium onion"

\* ---------------------------------------------------------------------
\* More claims about the routed list.

\* The number of entries over all buckets of the returned list.
RECURSIVE RoutedCount(_)
RoutedCount(b) ==
    IF b = 0 THEN 0 ELSE RoutedCount(b - 1) + Len(routed.stores[b].data.items)

\* C26: a routing over two or more stores loses no entry of the shopping
\* list: every (item, amount, unit) entry of the input is in some returned
\* bucket and the buckets hold as many entries as the input, also when two
\* entries share an item name and differ in unit.
C26_NoEntryLost ==
    RoutedOverSeveral =>
        /\ \A e \in Range(ListedItems(shopping_list)) : \E p \in Placed : p.entry = e
        /\ RoutedCount(Len(routed.stores)) = Len(ListedItems(shopping_list))

\* 'Rice' in cups and 'rice' in cup were listed, and one of them came back.
C26_Witness ==
    /\ RoutedOverSeveral
    /\ \E e, f \in Range(ListedItems(shopping_list)) :
           /\ Lower(e.item) = Lower(f.item)
           /\ e.unit # f.unit
           /\ \E p \in Placed : p.entry = e
           /\ \A p \in Placed : p.entry # f
    /\ RoutedCount(Len(routed.stores)) = 1


\* C27: a routing over several stores changes only the partition of the
\* items over the stores: the date range, the people count and the budget
\* of the shopping list are carried unchanged into the returned list, as
\* they are when one store is selected.
C27_HeaderCarried ==
    routed # NotRouted =>
        /\ {"meal_plan_dates", "people", "budget"} \subseteq DOMAIN routed
        /\ routed.meal_plan_dates = shopping_list.meal_plan_dates
        /\ routed.people = shopping_list.people
        /\ routed.budget = shopping_list.budget

\* A routing over several stores has returned a list without the date
\* range, the people count and the budget, its start_date empty.
C27_Witness ==
    /\ RoutedOverSeveral
    /\ Len(ListedItems(shopping_list)) > 0
    /\ DOMAIN routed \cap {"meal_plan_dates", "people", "budget"} = {}
    /\ routed.start_date = ""

\* With one store selected the returned list carries the three.
C27_WitnessSingleStore ==
    /\ routed # NotRouted
    /\ Len(selected_stores) = 1
    /\ routed.meal_plan_dates = shopping_list.meal_plan_dates
    /\ routed.people = 2
    /\ routed.budget = 400


\* ---------------------------------------------------------------------
\* The keys of the price cache.

\* C28: a quote that get_price(item, store, zipcode) serves from the cache
\* was stored by an earlier call with the same item, store and zipcode (the
\* quote names the store of the call that stored it); no two distinct
\* triples share a cache entry.
C28_EntryOfOneTriple ==
    /\ (JustCalled /\ last_call.consulted = <<>>) =>
           last_call.returned.store = last_call.request.store
    /\ \A key \in DOMAIN cache :
           \A r, s \in Requests : (KeyOf(r) = key /\ KeyOf(s) = key) => r = s

\* The call for 'plum' at 'jam_jewel' has been served the estimate stored
\* by the call for 'plum_jam' at 'jewel'.
C28_Witness ==
    /\ JustCalled
    /\ last_call.consulted = <<>>
    /\ last_call.request = [item_name |-> "plum", store |-> "jam_jewel", zipcode |-> "60827"]
    /\ last_call.returned.store = "jewel"
    /\ last_call.returned.item = "Plum_Jam"


\* ---------------------------------------------------------------------
\* The totals of the buckets.

\* C29: every bucket of the result of _aggregate_ingredients has a total of
\* at least 0.1, a recipe set that is not empty and one item text or more:
\* no bucket is made with a zero total, whatever the type of a line's
\* amount, a number, a text or None.
C29_NoZeroBucket ==
    AggregationReturned =>
        \A b \in 1..Len(ingredient_totals.buckets) :
            /\ ~FLess(ingredient_totals.buckets[b].amount.f, RatioFloat(1, 10))
            /\ ingredient_totals.buckets[b].recipes # {}
            /\ Len(ingredient_totals.buckets[b].items) >= 1

\* A plan with the vinaigrette, whose garlic has the amount None, has been
\* aggregated into a bucket of garlic with the total 0.
C29_Witness ==
    /\ AggregationReturned
    /\ \E b \in 1..Len(ingredient_totals.buckets) :
           /\ ingredient_totals.buckets[b].amount = IntN(0)
           /\ ingredient_totals.buckets[b].recipes = {"vinaigrette"}
           /\ Len(ingredient_totals.buckets[b].items) >= 1


\* ---------------------------------------------------------------------
\* The scores as the quantity grows.

\* The stores scored as costco, the specialty stores, and the others.
BulkStores == {"costco", "cost_co"}

SpecialtyStores == {"whole_foods", "petes_fresh_market"}

\* C30: for a fixed ingredient the clamped score of costco does not fall as
\* the quantity in cups grows, the score of a specialty store (whole_foods,
\* petes_fresh_market) does not rise, and the score of a budget, convenience
\* or unknown store does not depend on the quantity; every score lies in
\* 0..100.
C30_ScoresMonotoneInQuantity ==
    RoutedOverSeveral =>
        \A s \in Range(normalized_stores(selected_stores)) :
        \A e \in Range(ListedItems(shopping_list)) :
        \A f \in QuantityPool :
            (f.item = e.item /\ Hundredths(e.amount) <= Hundredths(f.amount)) =>
                /\ StoreScore(s, e) \in 0..100
                /\ StoreScore(s, f) \in 0..100
                /\ s \in BulkStores => StoreScore(s, e) <= StoreScore(s, f)
                /\ s \in SpecialtyStores => StoreScore(s, e) >= StoreScore(s, f)
                /\ s \notin BulkStores \cup SpecialtyStores => StoreScore(s, e) = StoreScore(s, f)

\* Rice of 0.20 cup has been routed over costco and whole_foods: at 6 cups
\* costco scores more and whole_foods less.
C30_Witness ==
    /\ RoutedOverSeveral
    /\ selected_stores = <<"costco", "whole_foods">>
    /\ ListedItems(shopping_list) = << Entry("rice", StrV("0.20"), "cup") >>
    /\ StoreScore("costco", Entry("rice", StrV("0.20"), "cup"))
           < StoreScore("costco", Entry("rice", StrV("6.00"), "cup"))
    /\ StoreScore("whole_foods", Entry("rice", StrV("0.20"), "cup"))
           > StoreScore("whole_foods", Entry("rice", StrV("6.00"), "cup"))

====
